---- MODULE Spec2Model ----
(***************************************************************************)
(* Discord role -> Outline group synchronisation (auto_sync_outline.py)    *)
(* and the Outline gateway of bot.py.                                      *)
(*                                                                         *)
(* Text is modelled as sequences of one-character strings so that          *)
(* lower(), split(), replace() and the `in` substring test are computed,   *)
(* not assumed.                                                            *)
(***************************************************************************)
EXTENDS Integers, Sequences, FiniteSets, TLC

(***************************************************************************)
(* Bounds of the model.                                                    *)
(***************************************************************************)
MaxCandidates == 3
MaxRuns == 2

(***************************************************************************)
(* Text used by the inputs.                                                *)
(***************************************************************************)
sTeam == <<"T", "e", "a", "m">>
sTeamLower == <<"t", "e", "a", "m">>
sOld == <<"O", "l", "d">>
kwAlready == <<"a", "l", "r", "e", "a", "d", "y">>
kwExist == <<"e", "x", "i", "s", "t">>
kwDuplicate == <<"d", "u", "p", "l", "i", "c", "a", "t", "e">>
kwMember == <<"m", "e", "m", "b", "e", "r">>
kwConflict == <<"c", "o", "n", "f", "l", "i", "c", "t">>
kwPresent == <<"p", "r", "e", "s", "e", "n", "t">>
tSuccess == <<"s", "u", "c", "c", "e", "s", "s">>
tTrue == <<"t", "r", "u", "e">>
tFalse == <<"f", "a", "l", "s", "e">>
tError == <<"e", "r", "r", "o", "r">>
tMessage == <<"m", "e", "s", "s", "a", "g", "e">>
tData == <<"d", "a", "t", "a">>

(***************************************************************************)
(* String primitives of Python the code relies on.                         *)
(***************************************************************************)
UpperAZ == <<"A", "B", "C", "D", "E", "F", "G", "H", "I", "J", "K", "L", "M", "N", "O", "P", "Q", "R", "S", "T", "U", "V", "W", "X", "Y", "Z">>
LowerAZ == <<"a", "b", "c", "d", "e", "f", "g", "h", "i", "j", "k", "l", "m", "n", "o", "p", "q", "r", "s", "t", "u", "v", "w", "x", "y", "z">>

\* str.lower() on one character: the lower-case letter of an upper-case one
LowerOfUpper == [c \in {UpperAZ[i] : i \in 1..Len(UpperAZ)} |->
                    LowerAZ[CHOOSE i \in 1..Len(UpperAZ) : UpperAZ[i] = c]]

LowerChar(c) == IF c \in DOMAIN LowerOfUpper THEN LowerOfUpper[c] ELSE c

\* str.lower()
Lower(s) == [i \in 1..Len(s) |-> LowerChar(s[i])]

\* a in b  (substring test)
IsSubstr(a, b) ==
    \E i \in 0..(Len(b) - Len(a)) : SubSeq(b, i + 1, i + Len(a)) = a

\* str.replace(' ', '')
RECURSIVE RemoveSpaces(_)
RemoveSpaces(s) ==
    IF s = <<>> THEN <<>>
    ELSE IF Head(s) = " " THEN RemoveSpaces(Tail(s))
    ELSE <<Head(s)>> \o RemoveSpaces(Tail(s))

\* str.split(): the whitespace-separated tokens, empty tokens dropped
RECURSIVE SplitAcc(_, _)
SplitAcc(s, cur) ==
    IF s = <<>> THEN (IF cur = <<>> THEN <<>> ELSE <<cur>>)
    ELSE IF Head(s) = " "
         THEN (IF cur = <<>> THEN <<>> ELSE <<cur>>) \o SplitAcc(Tail(s), <<>>)
         ELSE SplitAcc(Tail(s), Append(cur, Head(s)))

Split(s) == SplitAcc(s, <<>>)

\* email.split('@')[0].lower()
RECURSIVE BeforeAt(_)
BeforeAt(s) ==
    IF s = <<>> THEN <<>>
    ELSE IF Head(s) = "@" THEN <<>>
    ELSE <<Head(s)>> \o BeforeAt(Tail(s))

EmailPrefix(email) == Lower(BeforeAt(email))

(***************************************************************************)
(* The inputs: guild members (handle, display name) and directory users    *)
(* (name, email).  A user record carries both keys; a null or empty value *)
(* is the empty text, which user.get(...) treats as false.                 *)
(***************************************************************************)
Members == {"m1", "m2", "m3"}
Users == {"u1", "u2", "u3", "u4", "u5", "u6", "u7", "u8"}

\* member.name
HandleOf(m) ==
    CASE m = "m1" -> <<"j", "d", "o", "e">>
      [] m = "m2" -> <<"d", "o", "e", "s">>
      [] OTHER    -> <<"k", "i", "m">>

\* member.display_name
DisplayOf(m) ==
    CASE m = "m1" -> <<"J", "a", "n", "e", " ", "D", "o", "e">>
      [] m = "m2" -> <<"B", "o">>
      [] OTHER    -> <<"K", "i", "m", " ", "L", "e", "e">>

\* user['name']
UserName(u) ==
    CASE u = "u1" -> <<"J", "A", "N", "E", " ", "d", "o", "e">>
      [] u = "u2" -> <<"j", "d", "o", "e">>
      [] u = "u3" -> <<"D", "o", "e">>
      [] u = "u4" -> <<>>
      [] u = "u5" -> <<"D", "o", "e", "s">>
      [] u = "u6" -> <<"A", "l">>
      [] u = "u7" -> <<"B", "o", "b">>
      [] OTHER    -> <<>>

\* user['email']
UserEmail(u) ==
    CASE u = "u1" -> <<"j", "d", "@", "x">>
      [] u = "u4" -> <<"d", "o", "e", "s", "@", "x">>
      [] u = "u6" -> <<"b", "o", "b", "@", "x">>
      [] OTHER    -> <<>>

(***************************************************************************)
(* find_matching_outline_user: six strategies, each a loop over the        *)
(* candidates that returns at its first hit.                               *)
(***************************************************************************)
\* a plausible slip: the token test without its length guard
TokenPairMatchNoGuard(a, b) ==
    \E i \in 1..Len(Split(a)) : \E j \in 1..Len(Split(b)) :
        LET pa == Split(a)[i]
            pb == Split(b)[j]
        IN  IsSubstr(pa, pb) \/ IsSubstr(pb, pa)

\* the token test of strategy 2 (lines 178-186)
TokenPairMatch(a, b) ==
    \E i \in 1..Len(Split(a)) : \E j \in 1..Len(Split(b)) :
        LET pa == Split(a)[i]
            pb == Split(b)[j]
        IN  /\ Len(pa) > 2
            /\ Len(pb) > 2
            /\ (IsSubstr(pa, pb) \/ IsSubstr(pb, pa))

Strategy1(username, display, u) ==
    /\ display # <<>>
    /\ UserName(u) # <<>>
    /\ Lower(UserName(u)) = Lower(display)

Strategy2(username, display, u) ==
    /\ display # <<>>
    /\ UserName(u) # <<>>
    /\ TokenPairMatch(Lower(display), Lower(UserName(u)))

Strategy3(username, display, u) ==
    /\ display # <<>>
    /\ UserEmail(u) # <<>>
    /\ LET display_clean == RemoveSpaces(Lower(display))
           email_prefix == EmailPrefix(UserEmail(u))
       IN  IsSubstr(display_clean, email_prefix) \/ IsSubstr(email_prefix, display_clean)

Strategy4(username, display, u) ==
    /\ UserName(u) # <<>>
    /\ Lower(UserName(u)) = Lower(username)

\* a plausible slip: strategy 5 written with the token test of strategy 2
Strategy5Tokens(username, display, u) ==
    /\ UserName(u) # <<>>
    /\ TokenPairMatch(Lower(username), Lower(UserName(u)))

Strategy5(username, display, u) ==
    /\ UserName(u) # <<>>
    /\ LET outline_name == Lower(UserName(u))
           username_clean == Lower(username)
       IN  /\ Len(username_clean) > 2
           /\ Len(outline_name) > 2
           /\ (IsSubstr(username_clean, outline_name) \/ IsSubstr(outline_name, username_clean))

Strategy6(username, display, u) ==
    /\ UserEmail(u) # <<>>
    /\ EmailPrefix(UserEmail(u)) = Lower(username)

StrategyHit(k, username, display, u) ==
    CASE k = 1 -> Strategy1(username, display, u)
      [] k = 2 -> Strategy2(username, display, u)
      [] k = 3 -> Strategy3(username, display, u)
      [] k = 4 -> Strategy4(username, display, u)
      [] k = 5 -> Strategy5(username, display, u)
      [] OTHER -> Strategy6(username, display, u)

NoMatch == [user |-> "none", strategy |-> 0]

\* a plausible slip: the loop keeps the last hit instead of returning at the first
RECURSIVE ScanUsersLast(_, _, _, _, _)
ScanUsersLast(k, username, display, outline_users, i) ==
    IF i > Len(outline_users) THEN "none"
    ELSE LET rest == ScanUsersLast(k, username, display, outline_users, i + 1)
         IN  IF rest # "none" THEN rest
             ELSE IF StrategyHit(k, username, display, outline_users[i]) THEN outline_users[i]
             ELSE "none"

\* one strategy's loop: the first candidate it accepts, scanning from index i
RECURSIVE ScanUsers(_, _, _, _, _)
ScanUsers(k, username, display, outline_users, i) ==
    IF i > Len(outline_users) THEN "none"
    ELSE IF StrategyHit(k, username, display, outline_users[i]) THEN outline_users[i]
    ELSE ScanUsers(k, username, display, outline_users, i + 1)

\* a plausible slip: the cascade gives up before the email-prefix strategy
RECURSIVE CascadeSkipsLast(_, _, _, _)
CascadeSkipsLast(k, username, display, outline_users) ==
    IF k > 5 THEN NoMatch
    ELSE LET hit == ScanUsers(k, username, display, outline_users, 1)
         IN  IF hit # "none" THEN [user |-> hit, strategy |-> k]
             ELSE CascadeSkipsLast(k + 1, username, display, outline_users)

\* the cascade: strategies tried in order from k on
RECURSIVE Cascade(_, _, _, _)
Cascade(k, username, display, outline_users) ==
    IF k > 6 THEN NoMatch
    ELSE LET hit == ScanUsers(k, username, display, outline_users, 1)
         IN  IF hit # "none" THEN [user |-> hit, strategy |-> k]
             ELSE Cascade(k + 1, username, display, outline_users)

find_matching_outline_user(discord_username, discord_display_name, outline_users) ==
    Cascade(1, discord_username, discord_display_name, outline_users)

(***************************************************************************)
(* The guild, the mapping file and the directory the sync runs against.    *)
(***************************************************************************)
\* role.members of each guild role
RoleMembers(role) ==
    CASE role = "Active" -> <<"m1", "m3", "m2">>
      [] role = "Alumni" -> <<"m3">>
      [] OTHER           -> <<>>

\* role_mapping.json: categories, each with a 'mappings' table
MappingConfigs ==
    { << [mappings |-> << <<"Active", sTeam>> >>],
         [mappings |-> << <<"Alumni", sOld>> >>] >> }

\* role_mapping.json with the role Active in two categories, with two roles
\* mapped to one group, and the empty configuration
ConfigChoices ==
    MappingConfigs \cup
    { << [mappings |-> << <<"Active", sTeam>> >>],
         [mappings |-> << <<"Alumni", sOld>>, <<"Active", sOld>> >>] >>,
      << [mappings |-> << <<"Alumni", sOld>>, <<"Active", sOld>> >>] >>,
      <<>> }

\* role_mapping.json holding a configuration
FileOf(config) == [kind |-> "valid", content |-> config]

\* role_mapping.json: absent, a file open() cannot read, text that is no JSON,
\* or a configuration
FileChoices ==
    { [kind |-> k, content |-> <<>>] : k \in {"absent", "unreadable", "invalid"} }
    \cup { FileOf(c) : c \in ConfigChoices }

Raised == "raised"

\* lines 15-24: FileNotFoundError and json.JSONDecodeError give {}; any other
\* error of open() or of the decoding leaves the function
load_role_mappings(file) ==
    CASE file.kind = "absent"     -> <<>>
      [] file.kind = "invalid"    -> <<>>
      [] file.kind = "unreadable" -> Raised
      [] OTHER                    -> file.content

GuildChoices == { {"Active", "Alumni"}, {"Active"}, {"Alumni"} }

GroupChoices ==
    { <<>>,
      << [id |-> "g1", name |-> sTeam] >>,
      << [id |-> "g1", name |-> sTeamLower] >> }

\* the users of the directory, as the pages users.list serves them
UserListChoices ==
    { << <<"u1", "u3">> >>,
      << <<"u3">> >>,
      << <<"u3">>, <<"u1">> >> }

\* bot.py line 69: one users.list request without offset; the directory
\* answers with its first page
get_users(pages) == IF pages = <<>> THEN <<>> ELSE pages[1]

GroupIds == <<"g1", "g2", "g3", "g4", "g5", "g6", "g7">>
MockId == "mock-id-for-dry-run"
NoId == "<no id>"

(***************************************************************************)
(* Responses of the Outline gateway (OutlineAPI._make_request): None on a  *)
(* non-200 status or a network error, otherwise the decoded JSON body.     *)
(***************************************************************************)
ListShapes == {"none", "nodata", "list", "dict", "invalid"}
CreateShapes == {"none", "nodata", "notdict", "record", "noid"}

\* the replies a list request can get from a directory whose 'data' is a flat
\* list ("list") or an object holding the list under its key ("dict")
Replies(envelope) == {"none", "nodata", "invalid", envelope}

\* auto_sync_outline.py lines 44-56 and 133-143: what the full sync makes of
\* a list reply
FullParse(shape) ==
    CASE shape \in {"none", "nodata"} -> "failed"
      [] shape = "dict"               -> "ok"
      [] shape = "list"               -> "ok"
      [] OTHER                        -> "invalid"

\* bot.py lines 205-222: what sync-outline makes of a list reply.  A reply
\* without 'data' is read as an empty list; a 'data' that is no list is
\* iterated all the same and .get on its elements raises.
SlashParse(shape) ==
    CASE shape = "none"   -> "failed"
      [] shape = "nodata" -> "empty"
      [] shape = "list"   -> "ok"
      [] OTHER            -> "raise"

Body(success, error, message, data) ==
    [kind |-> "dict", success |-> success, error |-> error, message |-> message, data |-> data]

RespNone == [kind |-> "none", success |-> "absent", error |-> "absent", message |-> <<>>, data |-> <<>>]
RespEmpty == [kind |-> "empty", success |-> "absent", error |-> "absent", message |-> <<>>, data |-> <<>>]
RespSuccess == Body("true", "absent", <<>>, <<>>)
RespMemberships == Body("absent", "absent", <<>>, <<"g", "r", "o", "u", "p", "M", "e", "m", "b", "e", "r", "s", "h", "i", "p", "s">>)
RespAlready == Body("false", "dict", <<"U", "s", "e", "r", " ", "a", "l", "r", "e", "a", "d", "y", " ", "i", "n", " ", "g", "r", "o", "u", "p">>, <<>>)
RespRateLimited == Body("false", "dict", <<"R", "a", "t", "e", " ", "l", "i", "m", "i", "t", "e", "d">>, <<>>)
RespErrorString == Body("absent", "str", <<"n", "o", "t", "_", "f", "o", "u", "n", "d">>, <<>>)
RespConflict == Body("absent", "absent", <<"C", "o", "n", "f", "l", "i", "c", "t">>, <<>>)

AddResponses ==
    { RespNone, RespEmpty, RespSuccess, RespMemberships, RespAlready,
      RespRateLimited, RespErrorString, RespConflict }

\* str(add_response).lower(): keys and values in order, punctuation as blanks
ResponseText(r) ==
    Lower(
        (IF r.success = "absent" THEN <<>>
         ELSE tSuccess \o <<" ">> \o (IF r.success = "true" THEN tTrue ELSE tFalse) \o <<" ">>)
     \o (IF r.error = "dict" THEN tError \o <<" ">> \o tMessage \o <<" ">> \o r.message \o <<" ">>
         ELSE IF r.error = "str" THEN tError \o <<" ">> \o r.message \o <<" ">>
         ELSE IF r.message # <<>> THEN tMessage \o <<" ">> \o r.message \o <<" ">>
         ELSE <<>>)
     \o (IF r.data = <<>> THEN <<>> ELSE tData \o <<" ">> \o r.data))

existing_keywords == <<kwAlready, kwExist, kwDuplicate, kwMember, kwConflict, kwPresent>>

HasKeyword(text) ==
    \E i \in 1..Len(existing_keywords) : IsSubstr(existing_keywords[i], text)

\* a plausible slip: the else of line 275 is missing, an empty reply falls
\* through to the success line
ClassifyAddEmptyIsSynced(r) ==
    IF r.kind # "dict" THEN "synced"
    ELSE LET is_existing == HasKeyword(ResponseText(r))
         IN  IF r.success = "false" \/ r.error # "absent"
             THEN IF r.error = "str" THEN "raise"
                  ELSE IF is_existing \/ (r.error = "dict" /\ HasKeyword(Lower(r.message)))
                       THEN "existing" ELSE "synced"
             ELSE IF is_existing THEN "existing" ELSE "synced"

\* a plausible slip: a reply with success = false or an error field counts
\* as a failure unless it names an existing membership
ClassifyAddStrict(r) ==
    IF r.kind # "dict" THEN "failed"
    ELSE IF r.error = "str" THEN "raise"
    ELSE IF HasKeyword(ResponseText(r)) THEN "existing"
    ELSE IF r.success = "false" \/ r.error # "absent" THEN "failed"
    ELSE "synced"

\* lines 251-276: the bucket a live add-to-group reply puts the member in;
\* "raise" is the AttributeError of .get on an error field that is no dict
ClassifyAdd(r) ==
    IF r.kind # "dict" THEN "failed"
    ELSE LET is_existing == HasKeyword(ResponseText(r))
         IN  IF r.success = "false" \/ r.error # "absent"
             THEN IF r.error = "str" THEN "raise"
                  ELSE LET error_msg == IF r.error = "dict" THEN Lower(r.message) ELSE <<>>
                       IN  IF is_existing \/ HasKeyword(error_msg) THEN "existing" ELSE "synced"
             ELSE IF is_existing THEN "existing" ELSE "synced"

\* lines 237-247: the bucket a dry run puts a matched member in
\* a plausible slip: the dry run skips the look at the memberships
DryBucketAlwaysNew(user, outline_group_id) == "synced"

DryBucket(user, outline_group_id) ==
    IF outline_group_id \in user.memberships THEN "existing" ELSE "synced"

\* what the directory does with an add-to-group call it answers with r
DirectoryAdd(memberships, u, gid, r) ==
    IF r.kind = "dict" /\ r.error = "absent" /\ r.success # "false"
    THEN [memberships EXCEPT ![u] = @ \cup {gid}]
    ELSE memberships

(***************************************************************************)
(* Flattening of the mapping file (lines 61-64): dict.update keeps the     *)
(* position of a key it already holds and overwrites its value.            *)
(***************************************************************************)
RECURSIVE UpdateDict(_, _)
UpdateDict(acc, pairs) ==
    IF pairs = <<>> THEN acc
    ELSE LET p == Head(pairs)
             next == IF \E i \in 1..Len(acc) : acc[i][1] = p[1]
                     THEN [i \in 1..Len(acc) |-> IF acc[i][1] = p[1] THEN p ELSE acc[i]]
                     ELSE Append(acc, p)
         IN  UpdateDict(next, Tail(pairs))

\* a plausible slip: the categories' mappings are appended, not merged
RECURSIVE FlattenConcat(_, _)
FlattenConcat(acc, categories) ==
    IF categories = <<>> THEN acc
    ELSE FlattenConcat(acc \o Head(categories).mappings, Tail(categories))

RECURSIVE Flatten(_, _)
Flatten(acc, categories) ==
    IF categories = <<>> THEN acc
    ELSE Flatten(UpdateDict(acc, Head(categories).mappings), Tail(categories))

\* line 58: {group['name']: group for group in groups_list}, the last record
\* of a name wins
GroupDict(groups_list) ==
    [n \in {groups_list[i].name : i \in 1..Len(groups_list)} |->
        groups_list[CHOOSE i \in 1..Len(groups_list) :
            /\ groups_list[i].name = n
            /\ \A j \in (i + 1)..Len(groups_list) : groups_list[j].name # n]]

\* a plausible slip: the table of groups is never consulted
HasGroupNever(groups, name) == FALSE

\* line 76: outline_group_name not in outline_groups
HasGroup(groups, name) == name \in DOMAIN groups

PutGroup(groups, name, rec) ==
    [n \in DOMAIN groups \cup {name} |-> IF n = name THEN rec ELSE groups[n]]

Result(kind, role, group, create, s, e, f) ==
    [kind |-> kind, role |-> role, group |-> group, create |-> create,
     synced |-> s, existing |-> e, failed |-> f]

Note(kind) == Result(kind, "", <<>>, "none", <<>>, <<>>, <<>>)

NoAdd == [member |-> "none", user |-> "none", group |-> "none", wasMember |-> FALSE, resp |-> RespNone]

(***************************************************************************)
(* The text of a failed member's line and the failure category the report  *)
(* derives from it (lines 276-278 and 313-347).  "#" stands for the cross  *)
(* mark and ">" for the arrow of the source's texts.                       *)
(***************************************************************************)
tCross == <<"#", " ">>
tOpen == <<" ", "[">>
tApiCallFailed == <<"A", "P", "I", " ", "c", "a", "l", "l", " ", "f", "a", "i", "l", "e", "d">>
tNoMatchFound == <<"N", "o", " ", "m", "a", "t", "c", "h", " ", "f", "o", "u", "n", "d">>
tApiError == <<"A", "P", "I", " ", "e", "r", "r", "o", "r">>
tOtherError == <<"O", "t", "h", "e", "r", " ", "e", "r", "r", "o", "r">>

\* line 222: the reason the matcher gives for no match
NoMatchReason(username, display) ==
    tNoMatchFound \o <<" ", "f", "o", "r", " ", "D", "i", "s", "c", "o", "r", "d", " ", "u", "s", "e", "r", ":", " ", "'">>
        \o username \o <<"'", " ", "(", "d", "i", "s", "p", "l", "a", "y", ":", " ", "'">> \o display \o <<"'", ")">>

\* lines 276 and 278: the line appended to failed_members, from the texts
\* it is formatted of
FailedText(display, handle, username, why) ==
    tCross \o display \o <<" ", "(">> \o handle \o <<")">>
        \o (IF why = "api_failed"
            THEN <<" ", ">", " ">> \o username \o tOpen \o tApiCallFailed \o <<"]">>
            ELSE tOpen \o NoMatchReason(handle, display) \o <<"]">>)

FailedInfo(e) ==
    FailedText(DisplayOf(e.member), HandleOf(e.member), UserName(e.user), e.why)

\* str.split(sep)[-1]: what follows the last occurrence of sep
RECURSIVE AfterLast(_, _)
AfterLast(s, sep) ==
    IF ~IsSubstr(sep, s) THEN s
    ELSE LET i == CHOOSE k \in 1..(Len(s) - Len(sep) + 1) :
                      /\ SubSeq(s, k, k + Len(sep) - 1) = sep
                      /\ \A j \in 1..(k - 1) : SubSeq(s, j, j + Len(sep) - 1) # sep
         IN  AfterLast(SubSeq(s, i + Len(sep), Len(s)), sep)

\* str.rstrip("]")
RECURSIVE RStripClose(_)
RStripClose(s) ==
    IF s # <<>> /\ s[Len(s)] = "]" THEN RStripClose(SubSeq(s, 1, Len(s) - 1)) ELSE s

\* lines 317-333: the category a failed line is grouped under; <<>> when
\* the line is skipped
simplified_reason(member_info) ==
    IF ~IsSubstr(tCross, member_info) \/ ~IsSubstr(tOpen, member_info) THEN <<>>
    ELSE LET reason == RStripClose(AfterLast(member_info, tOpen))
         IN  IF IsSubstr(tNoMatchFound, reason) THEN tNoMatchFound
             ELSE IF IsSubstr(tApiCallFailed, reason) THEN tApiError
             ELSE tOtherError
(***************************************************************************)
(* State.                                                                  *)
(***************************************************************************)
VARIABLES
    mMember,          \* matcher harness: the member handed to the matcher
    mUsers,           \* matcher harness: the candidate list
    mResult,          \* matcher harness: what find_matching_outline_user returned
    mapping_file,     \* role_mapping.json on disk
    role_mappings,    \* the loaded mapping file
    guildRoles,       \* names of the roles the guild has
    dirGroups,        \* directory: the groups, in groups.list order
    dirUsers,         \* directory: the users, in the pages of users.list
    usersEnvelope,    \* directory: the shape of 'data' in its users.list replies
    groupsEnvelope,   \* directory: the shape of 'data' in its groups.list replies
    memberOf,         \* directory: user id -> ids of the groups the user is in
    runsLeft,         \* invocations of the command still to come
    pc,               \* where auto_sync_outline_command stands
    dry_run,          \* its dry_run argument
    groups_list,      \* the groups it fetched
    outline_groups,   \* its name -> group table
    all_mappings,     \* the flattened mapping table
    idx,              \* position of the loop of line 67 in all_mappings
    create_message,   \* "none", "dry" or "created"
    results,          \* one entry per mapping handled so far
    sent,             \* what interaction.followup.send was given
    users_list,       \* sync_role_to_outline_group: the users it fetched
    outline_group_id, \* sync_role_to_outline_group: its group id argument
    mi,               \* position of the loop of line 229 in discord_role.members
    synced_members,
    existing_members,
    failed_members,
    lastAdd,          \* the add-to-group call of the latest loop step and its reply
    calls,            \* mutating gateway calls issued by the current run
    prevCalls,        \* mutating gateway calls issued by the run before
    prevResults,      \* report entries of the run before
    prevDry,          \* dry_run of the run before ("none" when there was none)
    role_name,        \* sync-outline: its role_name argument
    group_name,       \* sync-outline: its group_name argument
    users_reply,      \* sync-outline: the reply get_users got
    groups_reply,     \* sync-outline: the reply get_groups got
    outline_users,    \* sync-outline: the users it fetched
    group,            \* _sync_role_to_group: the group it found
    sync_count,
    error_count,
    report_in,        \* report harness: the buckets of one reconciled mapping, by size
    report_blocks,    \* report harness: the lengths of the messages sent for it
    failed_in,        \* report harness: one failed role-holder, by the texts of its line
    failure_groups,   \* report harness: the categories the summary lists that line under
    env_file,         \* deployment: the variables of .env, each absent, empty or set
    env_checked,      \* deployment: what check_env_file returned
    bot_started,      \* deployment: whether bot.py got past its validation
    sheet,            \* roster: the rows of the worksheet below its header row
    memberRoles,      \* guild: member name -> names of the roles the member holds
    roleOps,          \* every remove_roles and add_roles issued so far, in order
    cmd,              \* the roster command in progress (sync_roles, promote, setstatus)
    task              \* the daily task auto_sync_roles

matchVars == <<mMember, mUsers, mResult>>
worldVars == <<mapping_file, role_mappings, guildRoles, dirUsers, usersEnvelope, groupsEnvelope>>
dirVars == <<dirGroups, memberOf>>
cmdVars == <<pc, dry_run, groups_list, outline_groups, all_mappings, idx, create_message, results, sent>>
loopVars == <<users_list, outline_group_id, mi, synced_members, existing_members, failed_members, lastAdd>>
histVars == <<runsLeft, calls, prevCalls, prevResults, prevDry>>

slashVars == <<role_name, group_name, users_reply, groups_reply, outline_users, group,
               sync_count, error_count>>

syncVars == <<matchVars, worldVars, dirVars, cmdVars, loopVars, histVars, slashVars>>

reportVars == <<report_in, report_blocks, failed_in, failure_groups>>

rosterVars == <<sheet, memberRoles, roleOps, cmd, task>>

deployVars == <<env_file, env_checked, bot_started>>
otherVars == <<reportVars, rosterVars, deployVars>>

vars == <<syncVars, otherVars>>

\* candidate lists: sequences of distinct directory users
DistinctSeqs(S, n) ==
    {s \in UNION {[1..k -> S] : k \in 0..n} :
        \A i, j \in 1..Len(s) : i # j => s[i] # s[j]}

NotRun == [user |-> "none", strategy |-> -1]

\* the command is not running
CommandIdle ==
    /\ pc = "idle"
    /\ dry_run = FALSE
    /\ groups_list = <<>>
    /\ outline_groups = <<>>
    /\ all_mappings = <<>>
    /\ idx = 1
    /\ create_message = "none"
    /\ results = <<>>
    /\ sent = <<>>
    /\ users_list = <<>>
    /\ outline_group_id = "none"
    /\ mi = 1
    /\ synced_members = <<>>
    /\ existing_members = <<>>
    /\ failed_members = <<>>
    /\ lastAdd = NoAdd
    /\ calls = <<>>
    /\ prevCalls = <<>>
    /\ prevResults = <<>>
    /\ prevDry = "none"
    /\ role_name = ""
    /\ group_name = <<>>
    /\ users_reply = "none"
    /\ groups_reply = "none"
    /\ outline_users = <<>>
    /\ group = [id |-> NoId, name |-> <<>>]
    /\ sync_count = 0
    /\ error_count = 0

NoReport == [dry |-> FALSE, create |-> "none", role |-> 0, group |-> 0, name |-> 0,
             synced |-> 0, existing |-> 0, no_match |-> 0, api_failed |-> 0]

\* the elements of a sequence
SeqToSet(s) == {s[i] : i \in 1..Len(s)}

\* guild.members, in order
GuildMembers == <<"ann", "bob">>

IdleCmd == [name |-> "none", pc |-> "idle", data |-> <<>>, i |-> 1, m |-> 1,
            before |-> <<>>, updates |-> <<>>, sheet_success |-> FALSE,
            member |-> "none", status |-> ""]

\* before: the roles of the guild when the pass started
IdleTask == [pc |-> "idle", data |-> <<>>, i |-> 1, before |-> <<>>]

\* the variables either program reads from .env
EnvVars == {"DISCORD_TOKEN", "GOOGLE_SHEETS_ID", "SHEET_ID", "WORKSHEET_NAME",
            "OUTLINE_API_URL", "OUTLINE_API_TOKEN"}

DeployIdle ==
    /\ env_file = [v \in EnvVars |-> "absent"]
    /\ env_checked = "none"
    /\ bot_started = "none"

RosterIdle ==
    /\ sheet = <<>>
    /\ memberRoles = [m \in SeqToSet(GuildMembers) |-> {}]
    /\ roleOps = <<>>
    /\ cmd = IdleCmd
    /\ task = IdleTask

NoFailed == [display |-> <<>>, handle |-> <<>>, user |-> <<>>, why |-> "none"]

OtherIdle ==
    /\ report_in = NoReport
    /\ report_blocks = <<>>
    /\ failed_in = NoFailed
    /\ failure_groups = <<>>
    /\ RosterIdle
    /\ DeployIdle

MatcherIdle ==
    /\ mMember = "m1"
    /\ mUsers = <<>>
    /\ mResult = [user |-> "none", strategy |-> 0]

\* memberships a directory may start with: nobody in a group, or u1 in g1
MembershipChoices(groups) ==
    { [u \in Users |-> {}] } \cup
    ( IF groups = <<>> THEN {} ELSE { [u \in Users |-> IF u = "u1" THEN {groups[1].id} ELSE {}] } )

InitWorld ==
    /\ role_mappings \in MappingConfigs
    /\ mapping_file = FileOf(role_mappings)
    /\ guildRoles \in GuildChoices
    /\ dirGroups \in GroupChoices
    /\ dirUsers \in UserListChoices
    /\ usersEnvelope \in {"list", "dict"}
    /\ groupsEnvelope \in {"list", "dict"}
    /\ memberOf \in MembershipChoices(dirGroups)

\* one invocation of the command
Init ==
    /\ OtherIdle
    /\ MatcherIdle
    /\ InitWorld
    /\ CommandIdle
    /\ runsLeft = 1

\* the command invoked MaxRuns times in a row, nothing else touching the directory
InitTwice ==
    /\ OtherIdle
    /\ MatcherIdle
    /\ InitWorld
    /\ guildRoles = {"Active", "Alumni"}
    /\ dirUsers = << <<"u1", "u3">> >>
    /\ usersEnvelope = "list"
    /\ groupsEnvelope = "dict"
    /\ dirGroups = << [id |-> "g1", name |-> sTeam] >>
    /\ CommandIdle
    /\ runsLeft = MaxRuns

(***************************************************************************)
(* Matcher harness: the matcher applied to one member and a candidate      *)
(* list.                                                                   *)
(***************************************************************************)
InitMatch ==
    /\ OtherIdle
    /\ mMember \in Members
    /\ mUsers \in DistinctSeqs(Users, MaxCandidates)
    /\ mResult = NotRun
    /\ role_mappings = <<>>
    /\ mapping_file = FileOf(role_mappings)
    /\ guildRoles = {}
    /\ dirGroups = <<>>
    /\ dirUsers = <<mUsers>>
    /\ usersEnvelope = "list"
    /\ groupsEnvelope = "list"
    /\ memberOf = [u \in Users |-> {}]
    /\ CommandIdle
    /\ runsLeft = 0

\* one call of find_matching_outline_user (line 231)
CallMatcher ==
    /\ mResult = NotRun
    /\ mResult' = find_matching_outline_user(HandleOf(mMember), DisplayOf(mMember), mUsers)
    /\ UNCHANGED <<otherVars, mMember, mUsers, worldVars, dirVars, cmdVars, loopVars, histVars, slashVars>>

NextMatch == CallMatcher

SpecMatch == InitMatch /\ [][NextMatch]_vars
(***************************************************************************)
(* auto_sync_outline_command and sync_role_to_outline_group.               *)
(***************************************************************************)
\* bot.py lines 75-81: the request add_user_to_group posts
add_user_to_group(user_id, group_id) ==
    [endpoint |-> "groups.addUser", data |-> [userId |-> user_id, groupId |-> group_id]]

\* bot.py lines 83-89: the request remove_user_from_group posts
remove_user_from_group(user_id, group_id) ==
    [endpoint |-> "groups.removeUser", data |-> [userId |-> user_id, groupId |-> group_id]]

\* test_outline_api.py lines 115-142: the request the test script validates
test_groups_add_user(group_id, user_id) ==
    [endpoint |-> "groups.add_user", data |-> [id |-> group_id, userId |-> user_id]]

\* test_outline_api.py lines 144-171
test_groups_remove_user(group_id, user_id) ==
    [endpoint |-> "groups.remove_user", data |-> [id |-> group_id, userId |-> user_id]]

NoRequest == [endpoint |-> "", data |-> [userId |-> "none", groupId |-> "none"]]

\* a mutating gateway call, tagged with the role whose mapping issued it
\* and, for add-to-group, with the role-holder it was issued for
CreateCall(role, name, reply) ==
    [op |-> "create", role |-> role, member |-> "none", user |-> "none", gid |-> "none",
     name |-> name, reply |-> reply, request |-> NoRequest]
AddCall(role, member, u, gid) ==
    [op |-> "add", role |-> role, member |-> member, user |-> u, gid |-> gid,
     name |-> <<>>, reply |-> "none", request |-> add_user_to_group(u, gid)]

Entry(member, user, why) == [member |-> member, user |-> user, why |-> why]

LoopReset ==
    /\ users_list' = <<>>
    /\ outline_group_id' = "none"
    /\ mi' = 1
    /\ synced_members' = <<>>
    /\ existing_members' = <<>>
    /\ failed_members' = <<>>
    /\ lastAdd' = NoAdd

\* lines 38-64: the command starts, fetches the groups and flattens the mappings
StartSync ==
    /\ pc \in {"idle", "done"}
    /\ runsLeft > 0
    /\ runsLeft' = runsLeft - 1
    /\ prevCalls' = calls
    /\ prevResults' = results
    /\ prevDry' = IF pc = "idle" THEN "none" ELSE IF dry_run THEN "dry" ELSE "live"
    /\ calls' = <<>>
    /\ results' = <<>>
    /\ idx' = 1
    /\ create_message' = "none"
    /\ LoopReset
    /\ \E dry \in BOOLEAN, shape \in Replies(groupsEnvelope) :
        /\ dry_run' = dry
        /\ IF FullParse(shape) = "ok"
           THEN /\ groups_list' = dirGroups
                /\ outline_groups' = GroupDict(dirGroups)
                /\ all_mappings' = Flatten(<<>>, role_mappings)
                /\ sent' = <<>>
                /\ pc' = "mapping"
           ELSE /\ groups_list' = <<>>
                /\ outline_groups' = <<>>
                /\ all_mappings' = <<>>
                /\ sent' = << Note(IF FullParse(shape) = "invalid" THEN "groups_invalid" ELSE "groups_failed") >>
                /\ pc' = "done"
    /\ UNCHANGED <<otherVars, matchVars, worldVars, dirVars, slashVars>>

\* the mapping is finished with one report entry; on to the next mapping
NextMapping(entry) ==
    /\ results' = Append(results, entry)
    /\ idx' = idx + 1
    /\ create_message' = "none"
    /\ pc' = "mapping"
    /\ sent' = sent
    /\ LoopReset

\* line 113: an exception leaves the loop; only the error message is sent
AbortRun ==
    /\ sent' = << Note("abort") >>
    /\ pc' = "done"
    /\ UNCHANGED <<results, idx, create_message>>
    /\ LoopReset

\* a plausible slip: the result of the role lookup is never tested
RoleFoundAlways(roles, role) == TRUE

\* lines 69-70: discord.utils.get(guild.roles, name=...) found the role
RoleFound(roles, role) == role \in roles

\* a plausible slip: the reply to create_group is never tested
CreateFailedNever(cshape) == FALSE

\* line 84 negated: the reply to create_group is empty or holds no 'data'
CreateFailed(cshape) == cshape \in {"none", "nodata"}

\* does this mapping issue create_group (lines 76-83)
Creating(dry, gname) == ~HasGroup(outline_groups, gname) /\ ~dry

\* lines 67-100 and 130-152: one mapping up to the start of its member loop.
\* cshape is the reply to create_group, ushape the reply to get_users.
MappingStep(cshape, ushape) ==
    LET role == all_mappings[idx][1]
        gname == all_mappings[idx][2]
        missing == ~HasGroup(outline_groups, gname)
        creating == Creating(dry_run, gname)
        created == [id |-> GroupIds[Len(dirGroups) + 1], name |-> gname]
        table == IF ~missing THEN outline_groups
                 ELSE IF ~creating
                      THEN PutGroup(outline_groups, gname, [id |-> MockId, name |-> gname])
                      ELSE IF cshape = "record"
                           THEN PutGroup(outline_groups, gname, created)
                           ELSE PutGroup(outline_groups, gname, [id |-> NoId, name |-> gname])
        msg == IF ~missing THEN "none" ELSE IF dry_run THEN "dry" ELSE "created"
    IN  IF ~RoleFound(guildRoles, role)
        THEN /\ NextMapping(Result("role_not_found", role, gname, "none", <<>>, <<>>, <<>>))
             /\ UNCHANGED <<outline_groups, calls, dirGroups>>
        ELSE /\ calls' = IF creating THEN Append(calls, CreateCall(role, gname, cshape)) ELSE calls
             /\ dirGroups' = IF creating /\ cshape \in {"record", "noid"}
                             THEN Append(dirGroups, created) ELSE dirGroups
             /\ IF creating /\ CreateFailed(cshape)
                THEN /\ NextMapping(Result("create_failed", role, gname, "none", <<>>, <<>>, <<>>))
                     /\ UNCHANGED outline_groups
                ELSE IF creating /\ cshape = "notdict"
                THEN /\ NextMapping(Result("create_invalid", role, gname, "none", <<>>, <<>>, <<>>))
                     /\ UNCHANGED outline_groups
                ELSE /\ outline_groups' = table
                     /\ IF table[gname].id = NoId
                        THEN AbortRun
                        ELSE IF FullParse(ushape) = "failed"
                        THEN NextMapping(Result("users_failed", role, gname, msg, <<>>, <<>>, <<>>))
                        ELSE IF FullParse(ushape) = "invalid"
                        THEN NextMapping(Result("users_invalid", role, gname, msg, <<>>, <<>>, <<>>))
                        ELSE /\ users_list' = [i \in 1..Len(get_users(dirUsers)) |->
                                                [id |-> get_users(dirUsers)[i],
                                                 memberships |-> memberOf[get_users(dirUsers)[i]]]]
                             /\ outline_group_id' = table[gname].id
                             /\ mi' = 1
                             /\ synced_members' = <<>>
                             /\ existing_members' = <<>>
                             /\ failed_members' = <<>>
                             /\ lastAdd' = NoAdd
                             /\ create_message' = msg
                             /\ pc' = "members"
                             /\ UNCHANGED <<results, idx, sent>>

BeginMapping ==
    /\ pc = "mapping"
    /\ idx <= Len(all_mappings)
    /\ \E cshape \in CreateShapes, ushape \in Replies(usersEnvelope) : MappingStep(cshape, ushape)
    /\ UNCHANGED <<otherVars, matchVars, worldVars, memberOf, dry_run, groups_list, all_mappings,
                   runsLeft, prevCalls, prevResults, prevDry, slashVars>>

\* a plausible slip: the add call is issued whatever dry_run says
IssuesAddAlways(dry, user, gid) == TRUE

\* a plausible slip: a live run skips the call for a user the snapshot shows in the group
IssuesAddUnlessMember(dry, user, gid) == ~dry /\ gid \notin user.memberships

\* line 235: a matched member gets an add-to-group call unless dry_run
IssuesAdd(dry, user, gid) == ~dry

\* lines 229-278: one step of the member loop
MemberStep(dry) ==
    LET role == all_mappings[idx][1]
        gname == all_mappings[idx][2]
        member == RoleMembers(role)[mi]
        ids == [i \in 1..Len(users_list) |-> users_list[i].id]
        match == find_matching_outline_user(HandleOf(member), DisplayOf(member), ids)
        matched_user == users_list[CHOOSE i \in 1..Len(users_list) : users_list[i].id = match.user]
    IN  IF match.user = "none"
        THEN /\ failed_members' = Append(failed_members, Entry(member, "none", "no_match"))
             /\ mi' = mi + 1
             /\ lastAdd' = NoAdd
             /\ UNCHANGED <<synced_members, existing_members, users_list, outline_group_id,
                            calls, memberOf, results, idx, create_message, pc, sent>>
        ELSE IF ~IssuesAdd(dry, matched_user, outline_group_id)
        THEN /\ IF DryBucket(matched_user, outline_group_id) = "existing"
                THEN /\ existing_members' = Append(existing_members, Entry(member, match.user, "in_group"))
                     /\ UNCHANGED synced_members
                ELSE /\ synced_members' = Append(synced_members, Entry(member, match.user, "matched"))
                     /\ UNCHANGED existing_members
             /\ mi' = mi + 1
             /\ lastAdd' = NoAdd
             /\ UNCHANGED <<failed_members, users_list, outline_group_id,
                            calls, memberOf, results, idx, create_message, pc, sent>>
        ELSE \E r \in AddResponses :
             /\ calls' = Append(calls, AddCall(role, member, match.user, outline_group_id))
             /\ memberOf' = DirectoryAdd(memberOf, match.user, outline_group_id, r)
             /\ IF ClassifyAdd(r) = "raise"
                THEN NextMapping(Result("error", role, gname, create_message, <<>>, <<>>, <<>>))
                ELSE /\ synced_members' =
                            IF ClassifyAdd(r) = "synced"
                            THEN Append(synced_members, Entry(member, match.user, "matched"))
                            ELSE synced_members
                     /\ existing_members' =
                            IF ClassifyAdd(r) = "existing"
                            THEN Append(existing_members, Entry(member, match.user, "in_group"))
                            ELSE existing_members
                     /\ failed_members' =
                            IF ClassifyAdd(r) = "failed"
                            THEN Append(failed_members, Entry(member, match.user, "api_failed"))
                            ELSE failed_members
                     /\ mi' = mi + 1
                     /\ lastAdd' = [member |-> member, user |-> match.user, group |-> outline_group_id,
                                    wasMember |-> outline_group_id \in memberOf[match.user], resp |-> r]
                     /\ UNCHANGED <<users_list, outline_group_id, results, idx, create_message, pc, sent>>

ProcessMember ==
    /\ pc = "members"
    /\ mi <= Len(RoleMembers(all_mappings[idx][1]))
    /\ MemberStep(dry_run)
    /\ UNCHANGED <<otherVars, matchVars, worldVars, dirGroups, dry_run, groups_list, outline_groups,
                   all_mappings, runsLeft, prevCalls, prevResults, prevDry, slashVars>>

\* lines 280-349 and 102-104: the mapping's report entry
FinishMapping ==
    /\ pc = "members"
    /\ mi > Len(RoleMembers(all_mappings[idx][1]))
    /\ NextMapping(Result("sync", all_mappings[idx][1], all_mappings[idx][2], create_message,
                          synced_members, existing_members, failed_members))
    /\ UNCHANGED <<otherVars, matchVars, worldVars, dirVars, dry_run, groups_list, outline_groups,
                   all_mappings, histVars, slashVars>>

\* lines 106-111: every entry is sent, or the no-mappings notice
SendReport ==
    /\ pc = "mapping"
    /\ idx > Len(all_mappings)
    /\ sent' = IF results # <<>> THEN results ELSE << Note("no_mappings") >>
    /\ pc' = "done"
    /\ UNCHANGED <<otherVars, matchVars, worldVars, dirVars, dry_run, groups_list, outline_groups,
                   all_mappings, idx, create_message, results, loopVars, histVars, slashVars>>

Next ==
    \/ StartSync
    \/ BeginMapping
    \/ ProcessMember
    \/ FinishMapping
    \/ SendReport

Spec == Init /\ [][Next]_vars

\* the full sync over the configurations of ConfigChoices
InitConfig ==
    /\ OtherIdle
    /\ MatcherIdle
    /\ role_mappings \in ConfigChoices
    /\ mapping_file = FileOf(role_mappings)
    /\ guildRoles = {"Active", "Alumni"}
    /\ dirGroups \in GroupChoices
    /\ dirUsers = << <<"u1", "u3">> >>
    /\ usersEnvelope = "list"
    /\ groupsEnvelope = "dict"
    /\ memberOf \in MembershipChoices(dirGroups)
    /\ CommandIdle
    /\ runsLeft = 1

SpecConfig == InitConfig /\ [][Next]_vars

\* the configuration is loaded, then handed to the full sync
InitLoad ==
    /\ OtherIdle
    /\ MatcherIdle
    /\ mapping_file \in FileChoices
    /\ role_mappings = <<>>
    /\ guildRoles = {"Active", "Alumni"}
    /\ dirGroups \in GroupChoices
    /\ dirUsers = << <<"u1", "u3">> >>
    /\ usersEnvelope = "list"
    /\ groupsEnvelope = "dict"
    /\ memberOf \in MembershipChoices(dirGroups)
    /\ pc = "unloaded"
    /\ dry_run = FALSE
    /\ groups_list = <<>>
    /\ outline_groups = <<>>
    /\ all_mappings = <<>>
    /\ idx = 1
    /\ create_message = "none"
    /\ results = <<>>
    /\ sent = <<>>
    /\ users_list = <<>>
    /\ outline_group_id = "none"
    /\ mi = 1
    /\ synced_members = <<>>
    /\ existing_members = <<>>
    /\ failed_members = <<>>
    /\ lastAdd = NoAdd
    /\ calls = <<>>
    /\ prevCalls = <<>>
    /\ prevResults = <<>>
    /\ prevDry = "none"
    /\ role_name = ""
    /\ group_name = <<>>
    /\ users_reply = "none"
    /\ groups_reply = "none"
    /\ outline_users = <<>>
    /\ group = [id |-> NoId, name |-> <<>>]
    /\ sync_count = 0
    /\ error_count = 0
    /\ runsLeft = 1

\* one call of load_role_mappings
LoadMappings ==
    /\ pc = "unloaded"
    /\ IF load_role_mappings(mapping_file) = Raised
       THEN pc' = "load_raised" /\ UNCHANGED role_mappings
       ELSE pc' = "idle" /\ role_mappings' = load_role_mappings(mapping_file)
    /\ UNCHANGED <<otherVars, matchVars, mapping_file, guildRoles, dirUsers, usersEnvelope, groupsEnvelope,
                   dirVars, dry_run, groups_list, outline_groups, all_mappings, idx,
                   create_message, results, sent, loopVars, histVars, slashVars>>

NextLoad ==
    \/ LoadMappings
    \/ Next

SpecLoad == InitLoad /\ [][NextLoad]_vars

(***************************************************************************)
(* The length, in characters, of the message the full sync sends for one   *)
(* reconciled mapping (lines 280-349 and 106-109).  The mapping is given   *)
(* by the sizes of its buckets and the lengths of its names; every         *)
(* role-holder's display name has the same length.                         *)
(***************************************************************************)
\* the role-holders of a role, at most
MaxHolders == 70

\* the ceiling the chat platform puts on one message
MessageLimit == 2000

\* len(str(n))
Digits(n) == IF n < 10 THEN 1 ELSE IF n < 100 THEN 2 ELSE 3

\* len(', '.join(names)) for n names of length l
JoinLength(n, l) == IF n = 0 THEN 0 ELSE n * l + 2 * (n - 1)

\* lines 288-296: 'N synced', 'N exist', 'N failed' joined by ', ', or '0 processed'
StatusLength(r) ==
    LET failed == r.no_match + r.api_failed
        parts == << IF r.synced > 0 THEN Digits(r.synced) + 7 ELSE 0,
                    IF r.existing > 0 THEN Digits(r.existing) + 6 ELSE 0,
                    IF failed > 0 THEN Digits(failed) + 7 ELSE 0 >>
        n == Cardinality({i \in 1..3 : parts[i] > 0})
    IN  IF n = 0 THEN 11 ELSE parts[1] + parts[2] + parts[3] + 2 * (n - 1)

\* lines 285-347: the summary text
SummaryLength(r) ==
    (IF r.dry THEN 12 ELSE 0) + r.role + r.group + 9 + StatusLength(r)
    + (IF r.existing > 0 THEN 18 + 1 + JoinLength(r.existing, r.name) ELSE 0)
    + (IF r.no_match > 0 THEN 1 + 14 + 1 + 1 + JoinLength(r.no_match, r.name) ELSE 0)
    + (IF r.api_failed > 0 THEN 1 + 9 + 1 + 1 + JoinLength(r.api_failed, r.name) ELSE 0)

\* lines 78 and 92: the line about the group's creation
CreateMessageLength(r) ==
    CASE r.create = "dry"     -> 42 + r.group
      [] r.create = "created" -> 27 + r.group
      [] OTHER                -> 0

\* lines 106-109: one followup.send per result, the text between code fences
Blocks(r) == << 8 + CreateMessageLength(r) + SummaryLength(r) >>

InitReport ==
    /\ MatcherIdle
    /\ role_mappings = <<>>
    /\ mapping_file = FileOf(role_mappings)
    /\ guildRoles = {}
    /\ dirGroups = <<>>
    /\ dirUsers = << <<>> >>
    /\ usersEnvelope = "list"
    /\ groupsEnvelope = "list"
    /\ memberOf = [u \in Users |-> {}]
    /\ CommandIdle
    /\ runsLeft = 0
    /\ report_in \in {r \in [dry : BOOLEAN, create : {"none", "dry", "created"},
                             role : {6}, group : {4}, name : {3, 32}, synced : {0, 1},
                             existing : {0, 2, MaxHolders}, no_match : {0, 1, MaxHolders},
                             api_failed : {0, 1}] :
                        /\ r.create = "dry" => r.dry
                        /\ r.create = "created" => ~r.dry
                        /\ r.synced + r.existing + r.no_match + r.api_failed <= MaxHolders
                        /\ r.dry => r.api_failed = 0}
    /\ report_blocks = <<>>
    /\ failed_in = NoFailed
    /\ failure_groups = <<>>
    /\ RosterIdle
    /\ DeployIdle

\* the result of one mapping is sent
SendResult ==
    /\ report_blocks = <<>>
    /\ report_blocks' = Blocks(report_in)
    /\ UNCHANGED <<syncVars, rosterVars, deployVars, report_in, failed_in, failure_groups>>

SpecReport == InitReport /\ [][SendResult]_vars

\* one failed role-holder: display names and user names with and without
\* brackets and parentheses, unmatched or refused by the gateway
InitFailure ==
    /\ MatcherIdle
    /\ role_mappings = <<>>
    /\ mapping_file = FileOf(role_mappings)
    /\ guildRoles = {}
    /\ dirGroups = <<>>
    /\ dirUsers = << <<>> >>
    /\ usersEnvelope = "list"
    /\ groupsEnvelope = "list"
    /\ memberOf = [u \in Users |-> {}]
    /\ CommandIdle
    /\ runsLeft = 0
    /\ report_in = NoReport
    /\ report_blocks = <<>>
    /\ RosterIdle
    /\ DeployIdle
    /\ failed_in \in
          [display : { <<"K", "i", "m", " ", "L", "e", "e">>,
                       <<"A", "l", " ", "[", "d", "e", "v", "]">>,
                       <<"[", "d", "e", "v", "]", " ", "A", "l">>,
                       <<"A", "l", " ", "(", "x", ")">>,
                       <<"B", "o", " ", "[">> \o tApiCallFailed,
                       tNoMatchFound },
           handle : { <<"a", "l">>, <<"k", "i", "m">> },
           user : { <<"D", "o", "e">>, <<"A", "l", " ", "[", "x", "]">>, tNoMatchFound },
           why : {"no_match", "api_failed"}]
    /\ failure_groups = <<>>

\* lines 313-341: the line is grouped under the category its text gives
GroupFailure ==
    /\ failed_in # NoFailed
    /\ failure_groups = <<>>
    /\ LET member_info == FailedText(failed_in.display, failed_in.handle, failed_in.user,
                                     failed_in.why)
       IN  /\ simplified_reason(member_info) # <<>>
           /\ failure_groups' = << simplified_reason(member_info) >>
    /\ UNCHANGED <<syncVars, rosterVars, deployVars, report_in, report_blocks, failed_in>>

SpecFailure == InitFailure /\ [][GroupFailure]_vars

(***************************************************************************)
(* sync-outline with a role and a group: sync_outline_slash and            *)
(* _sync_role_to_group of bot.py.                                          *)
(***************************************************************************)
\* lines 212-218 and 255: outline_user_map.get(username); a later user of
\* the same lowercased name replaces an earlier one, a user without a name
\* is left out
SlashUser(users, username) ==
    LET hits == {i \in 1..Len(users) :
                    UserName(users[i]) # <<>> /\ Lower(UserName(users[i])) = username}
    IN  IF hits = {} THEN "none"
        ELSE users[CHOOSE i \in hits : \A j \in hits : j <= i]

NoGroup == [id |-> NoId, name |-> <<>>]

\* a plausible slip: the group is looked up by its name as written
SlashGroupExact(groups, name) ==
    LET hits == {i \in 1..Len(groups) : groups[i].name = name}
    IN  IF hits = {} THEN NoGroup
        ELSE groups[CHOOSE i \in hits : \A j \in hits : j <= i]

\* lines 221 and 239: outline_group_map.get(group_name.lower())
SlashGroup(groups, name) ==
    LET hits == {i \in 1..Len(groups) : Lower(groups[i].name) = Lower(name)}
    IN  IF hits = {} THEN NoGroup
        ELSE groups[CHOOSE i \in hits : \A j \in hits : j <= i]

SlashEnd(kind) ==
    /\ sent' = << Note(kind) >>
    /\ pc' = "slash_done"
    /\ UNCHANGED <<outline_users, group, sync_count, error_count, mi>>

\* lines 198-236 and 230-245: the command up to the member loop
SlashStart ==
    /\ pc = "idle"
    /\ runsLeft > 0
    /\ runsLeft' = runsLeft - 1
    /\ \E rn \in {"Active", "Alumni"}, gn \in {sTeam, sOld},
          ushape \in Replies(usersEnvelope), gshape \in Replies(groupsEnvelope) :
        /\ role_name' = rn
        /\ group_name' = gn
        /\ users_reply' = ushape
        /\ groups_reply' = gshape
        /\ IF SlashParse(ushape) = "failed" \/ SlashParse(gshape) = "failed"
           THEN SlashEnd("slash_fetch_failed")
           ELSE IF SlashParse(ushape) = "raise" \/ SlashParse(gshape) = "raise"
           THEN SlashEnd("slash_error")
           ELSE LET users == IF SlashParse(ushape) = "ok" THEN get_users(dirUsers) ELSE <<>>
                    groups == IF SlashParse(gshape) = "ok" THEN dirGroups ELSE <<>>
                IN  IF ~RoleFound(guildRoles, rn)
                    THEN /\ sent' = << Note("slash_role_not_found") >>
                         /\ pc' = "slash_done"
                         /\ outline_users' = users
                         /\ UNCHANGED <<group, sync_count, error_count, mi>>
                    ELSE IF SlashGroup(groups, gn) = NoGroup
                    THEN /\ sent' = << Note("slash_group_not_found") >>
                         /\ pc' = "slash_done"
                         /\ outline_users' = users
                         /\ UNCHANGED <<group, sync_count, error_count, mi>>
                    ELSE /\ outline_users' = users
                         /\ group' = SlashGroup(groups, gn)
                         /\ sync_count' = 0
                         /\ error_count' = 0
                         /\ mi' = 1
                         /\ pc' = "slash_members"
                         /\ UNCHANGED sent
    /\ UNCHANGED <<otherVars, matchVars, worldVars, dirVars, dry_run, groups_list, outline_groups,
                   all_mappings, idx, create_message, results, users_list, outline_group_id,
                   synced_members, existing_members, failed_members, lastAdd,
                   calls, prevCalls, prevResults, prevDry>>

\* lines 250-268: one step of the member loop of _sync_role_to_group
SlashMember ==
    /\ pc = "slash_members"
    /\ mi <= Len(RoleMembers(role_name))
    /\ LET member == RoleMembers(role_name)[mi]
           outline_user == SlashUser(outline_users, Lower(HandleOf(member)))
       IN  IF outline_user = "none"
           THEN /\ error_count' = error_count + 1
                /\ UNCHANGED <<sync_count, calls, memberOf>>
           ELSE \E r \in AddResponses :
                /\ calls' = Append(calls, AddCall(role_name, member, outline_user, group.id))
                /\ memberOf' = DirectoryAdd(memberOf, outline_user, group.id, r)
                /\ IF r.kind = "dict"
                   THEN sync_count' = sync_count + 1 /\ UNCHANGED error_count
                   ELSE error_count' = error_count + 1 /\ UNCHANGED sync_count
    /\ mi' = mi + 1
    /\ UNCHANGED <<otherVars, matchVars, worldVars, dirGroups, cmdVars, users_list, outline_group_id,
                   synced_members, existing_members, failed_members, lastAdd,
                   runsLeft, prevCalls, prevResults, prevDry,
                   role_name, group_name, users_reply, groups_reply, outline_users, group>>

\* lines 270 and 234-236: the result line is sent
SlashFinish ==
    /\ pc = "slash_members"
    /\ mi > Len(RoleMembers(role_name))
    /\ sent' = << Note("slash_synced") >>
    /\ pc' = "slash_done"
    /\ UNCHANGED <<otherVars, matchVars, worldVars, dirVars, dry_run, groups_list, outline_groups,
                   all_mappings, idx, create_message, results, loopVars, histVars,
                   role_name, group_name, users_reply, groups_reply, outline_users, group,
                   sync_count, error_count>>

\* either command, once
InitCommands ==
    /\ OtherIdle
    /\ MatcherIdle
    /\ role_mappings \in MappingConfigs
    /\ mapping_file = FileOf(role_mappings)
    /\ guildRoles \in GuildChoices
    /\ dirGroups \in GroupChoices
    /\ dirUsers \in UserListChoices \cup { << <<"u2", "u1">> >> }
    /\ usersEnvelope \in {"list", "dict"}
    /\ groupsEnvelope \in {"list", "dict"}
    /\ memberOf \in MembershipChoices(dirGroups)
    /\ CommandIdle
    /\ runsLeft = 1

NextCommands ==
    \/ Next
    \/ SlashStart
    \/ SlashMember
    \/ SlashFinish

SpecCommands == InitCommands /\ [][NextCommands]_vars

SpecTwice == InitTwice /\ [][Next]_vars

(***************************************************************************)
(* The roster commands of bot.py: sync_roles, promote, setstatus, and the  *)
(* daily task auto_sync_roles.                                             *)
(***************************************************************************)
\* the rows of the worksheet, at most
MaxRows == 2

\* lines 326, 447 and 521
status_roles == <<"Incoming", "Active", "Previous">>

\* a row of the worksheet.  Its 'Discord Username' cell is given by the
\* member it names ("" for a blank cell) and by whether its text is
\* member.name to the letter or differs from it in letter case or
\* surrounding blanks.
Row(name, exact, status) == [username |-> [name |-> name, exact |-> exact], status |-> status]

\* discord.utils.get(guild.members, name=username)
MemberNamed(username) ==
    IF username.exact /\ username.name \in SeqToSet(GuildMembers) THEN username.name ELSE "none"

\* cell_value.strip().lower() == name.lower()
SameName(cell, name) == cell.name = name

RoleOp(op, member, role) == [op |-> op, member |-> member, role |-> role]

\* the loop that removes every status role the member holds
RemoveStatusRoles(member, held, exist) ==
    LET Held(r) == r \in exist /\ r \in held
        kept == SelectSeq(status_roles, Held)
    IN  [k \in 1..Len(kept) |-> RoleOp("remove", member, kept[k])]

\* a plausible slip: the task adds the role without removing the others
auto_sync_roles_adds_only(entry, roles, exist) ==
    LET member == MemberNamed(entry.username)
    IN  IF entry.username.name = "" \/ entry.status = "" THEN <<>>
        ELSE IF member = "none" THEN <<>>
        ELSE IF entry.status \notin exist THEN <<>>
        ELSE IF entry.status \in roles[member] THEN <<>>
        ELSE << RoleOp("add", member, entry.status) >>

\* lines 503-533: the role operations the daily task issues for one row
auto_sync_roles(entry, roles, exist) ==
    LET member == MemberNamed(entry.username)
    IN  IF entry.username.name = "" \/ entry.status = "" THEN <<>>
        ELSE IF member = "none" THEN <<>>
        ELSE IF entry.status \in exist
             THEN IF entry.status \in roles[member] THEN <<>>
                  ELSE RemoveStatusRoles(member, roles[member], exist)
                       \o << RoleOp("add", member, entry.status) >>
             ELSE <<>>

\* a plausible slip: the test of lines 322-324 is missing, a member who
\* holds the row's role is handled like any other
sync_roles_internal_no_skip(entry, roles, exist) ==
    LET member == MemberNamed(entry.username)
    IN  IF entry.username.name = "" \/ entry.status = "" THEN <<>>
        ELSE IF member = "none" THEN <<>>
        ELSE IF entry.status \notin exist THEN <<>>
        ELSE RemoveStatusRoles(member, roles[member], exist)
             \o << RoleOp("add", member, entry.status) >>

\* lines 310-340: the role operations _sync_roles_internal issues for one row
sync_roles_internal(entry, roles, exist) ==
    LET username == entry.username
        status == entry.status
        member == MemberNamed(username)
    IN  IF username.name = "" \/ status = "" THEN <<>>
        ELSE IF member = "none" THEN <<>>
        ELSE IF status \notin exist THEN <<>>
        ELSE IF status \in roles[member] THEN <<>>
        ELSE RemoveStatusRoles(member, roles[member], exist)
             \o << RoleOp("add", member, status) >>

\* the guild after role operations
RECURSIVE ApplyOps(_, _)
ApplyOps(roles, ops) ==
    IF ops = <<>> THEN roles
    ELSE LET o == Head(ops)
         IN  ApplyOps([roles EXCEPT ![o.member] =
                          IF o.op = "remove" THEN @ \ {o.role} ELSE @ \cup {o.role}],
                      Tail(ops))

Tagged(ops, by) ==
    [k \in 1..Len(ops) |-> [by |-> by, op |-> ops[k].op, member |-> ops[k].member,
                            role |-> ops[k].role]]

\* lines 362-385: promote's step for one member.  add_roles(None) raises
\* after the removal before it was made.
promote_member(member, held, exist) ==
    IF "Previous" \in exist /\ "Previous" \in held
    THEN [ops |-> <<>>, updates |-> <<>>, raised |-> FALSE]
    ELSE LET active == "Active" \in exist /\ "Active" \in held
             incoming == "Incoming" \in exist /\ "Incoming" \in held
             first == IF ~active THEN [ops |-> <<>>, updates |-> <<>>, raised |-> FALSE]
                      ELSE IF "Previous" \in exist
                      THEN [ops |-> << RoleOp("remove", member, "Active"),
                                       RoleOp("add", member, "Previous") >>,
                            updates |-> << <<member, "Previous">> >>, raised |-> FALSE]
                      ELSE [ops |-> << RoleOp("remove", member, "Active") >>,
                            updates |-> <<>>, raised |-> TRUE]
         IN  IF first.raised \/ ~incoming THEN first
             ELSE IF "Active" \in exist
             THEN [ops |-> first.ops \o << RoleOp("remove", member, "Incoming"),
                                           RoleOp("add", member, "Active") >>,
                   updates |-> first.updates \o << <<member, "Active">> >>, raised |-> FALSE]
             ELSE [ops |-> first.ops \o << RoleOp("remove", member, "Incoming") >>,
                   updates |-> first.updates, raised |-> TRUE]

\* lines 408-414 and 473-477: the first row whose cell names the member gets
\* the status
UpdateFirst(rows, name, status) ==
    LET hits == {k \in 1..Len(rows) : SameName(rows[k].username, name)}
    IN  IF hits = {} THEN rows
        ELSE [rows EXCEPT ![CHOOSE k \in hits : \A j \in hits : k <= j].status = status]

RECURSIVE ApplyUpdates(_, _)
ApplyUpdates(rows, updates) ==
    IF updates = <<>> THEN rows
    ELSE ApplyUpdates(UpdateFirst(rows, Head(updates)[1], Head(updates)[2]), Tail(updates))

\* what the worksheet calls of one command come to
SheetOutcomes == {"ok", "no_columns", "error", "cell_error"}

\* lines 481-487: the row setstatus writes for a member no cell names;
\* col_values ends at the last cell that is not blank
NewRowAt(rows) ==
    LET named == {k \in 1..Len(rows) : rows[k].username.name # ""}
    IN  IF named = {} THEN 1 ELSE (CHOOSE k \in named : \A j \in named : j <= k) + 1

\* lines 456-491: setstatus' update of the worksheet
SetStatusSheet(rows, member, status, outcome) ==
    IF outcome \in {"no_columns", "error"} THEN rows
    ELSE IF \E k \in 1..Len(rows) : SameName(rows[k].username, member)
    THEN IF outcome = "ok" THEN UpdateFirst(rows, member, status) ELSE rows
    ELSE LET n == NewRowAt(rows)
             old == IF n <= Len(rows) THEN rows[n].status ELSE ""
             row == Row(member, TRUE, IF outcome = "ok" THEN status ELSE old)
         IN  IF n <= Len(rows) THEN [rows EXCEPT ![n] = row] ELSE Append(rows, row)

\* A coroutine runs on until its next await.  The worksheet calls block;
\* the awaits of a pass are its role operations, so a step of a pass goes
\* through the rows up to and including the next one that issues role
\* operations, or to the end of the rows.
CommandPass(c, roles, exist) ==
    LET hot == {k \in c.i..Len(c.data) : sync_roles_internal(c.data[k], roles, exist) # <<>>}
    IN  IF hot = {}
        THEN [cmd |-> [c EXCEPT !.i = Len(c.data) + 1,
                                !.pc = IF c.name = "promote" THEN "promote" ELSE "done"],
              ops |-> <<>>]
        ELSE LET j == CHOOSE k \in hot : \A h \in hot : k <= h
             IN  [cmd |-> [c EXCEPT !.i = j + 1],
                  ops |-> sync_roles_internal(c.data[j], roles, exist)]

TaskPass(t, roles, exist) ==
    LET hot == {k \in t.i..Len(t.data) : auto_sync_roles(t.data[k], roles, exist) # <<>>}
    IN  IF hot = {}
        THEN [task |-> [t EXCEPT !.i = Len(t.data) + 1, !.pc = "done"], ops |-> <<>>]
        ELSE LET j == CHOOSE k \in hot : \A h \in hot : k <= h
             IN  [task |-> [t EXCEPT !.i = j + 1],
                  ops |-> auto_sync_roles(t.data[j], roles, exist)]

\* lines 301-305 and 344-353: sync_roles or promote reads the worksheet and
\* starts its sync pass
CommandStart ==
    /\ cmd.pc = "idle"
    /\ \E name \in {"sync_roles", "promote"} :
        LET step == CommandPass([IdleCmd EXCEPT !.name = name, !.pc = "sync", !.data = sheet,
                                                !.before = memberRoles],
                                memberRoles, guildRoles)
        IN  /\ cmd' = step.cmd
            /\ memberRoles' = ApplyOps(memberRoles, step.ops)
            /\ roleOps' = roleOps \o Tagged(step.ops, name)
    /\ UNCHANGED <<syncVars, reportVars, deployVars, sheet, task>>

\* _sync_roles_internal goes on after a role operation
CommandEntry ==
    /\ cmd.pc = "sync"
    /\ LET step == CommandPass(cmd, memberRoles, guildRoles)
       IN  /\ cmd' = step.cmd
           /\ memberRoles' = ApplyOps(memberRoles, step.ops)
           /\ roleOps' = roleOps \o Tagged(step.ops, cmd.name)
    /\ UNCHANGED <<syncVars, reportVars, deployVars, sheet, task>>

\* lines 362-385: promote's loop up to and including the next member whose
\* roles it changes
PromoteMember ==
    /\ cmd.pc = "promote"
    /\ LET hot == {k \in cmd.m..Len(GuildMembers) :
                      promote_member(GuildMembers[k], memberRoles[GuildMembers[k]],
                                     guildRoles).ops # <<>>}
       IN  IF hot = {}
           THEN /\ cmd' = [cmd EXCEPT !.m = Len(GuildMembers) + 1, !.pc = "sheet"]
                /\ UNCHANGED <<memberRoles, roleOps>>
           ELSE LET j == CHOOSE k \in hot : \A h \in hot : k <= h
                    member == GuildMembers[j]
                    step == promote_member(member, memberRoles[member], guildRoles)
                IN  /\ memberRoles' = ApplyOps(memberRoles, step.ops)
                    /\ roleOps' = roleOps \o Tagged(step.ops, "promote")
                    /\ cmd' = [cmd EXCEPT !.m = j + 1,
                                          !.updates = @ \o step.updates,
                                          !.pc = IF step.raised THEN "raised" ELSE @]
    /\ UNCHANGED <<syncVars, reportVars, deployVars, sheet, task>>

\* lines 387-434: the worksheet is updated and the command answers
PromoteFinish ==
    /\ cmd.pc = "sheet"
    /\ IF cmd.updates = <<>>
       THEN /\ cmd' = [cmd EXCEPT !.pc = "done"]
            /\ UNCHANGED sheet
       ELSE \E outcome \in SheetOutcomes :
            /\ sheet' = IF outcome = "ok" THEN ApplyUpdates(sheet, cmd.updates) ELSE sheet
            /\ cmd' = [cmd EXCEPT !.pc = "done",
                                  !.sheet_success = outcome \in {"ok", "cell_error"}]
    /\ UNCHANGED <<syncVars, reportVars, deployVars, memberRoles, roleOps, task>>

\* lines 438-495: setstatus
SetStatus ==
    /\ cmd.pc = "idle"
    /\ \E member \in SeqToSet(GuildMembers), status \in SeqToSet(status_roles),
          outcome \in SheetOutcomes :
        /\ cmd' = [IdleCmd EXCEPT !.name = "setstatus", !.pc = "done", !.before = memberRoles,
                                  !.member = member, !.status = status]
        /\ IF status \in guildRoles
           THEN LET ops == RemoveStatusRoles(member, memberRoles[member], guildRoles)
                           \o << RoleOp("add", member, status) >>
                IN  /\ memberRoles' = ApplyOps(memberRoles, ops)
                    /\ roleOps' = roleOps \o Tagged(ops, "setstatus")
                    /\ sheet' = SetStatusSheet(sheet, member, status, outcome)
           ELSE UNCHANGED <<memberRoles, roleOps, sheet>>
    /\ UNCHANGED <<syncVars, reportVars, deployVars, task>>

\* lines 497-502: the daily task wakes, reads the worksheet and starts its
\* pass
TaskStart ==
    /\ task.pc = "idle"
    /\ LET step == TaskPass([pc |-> "sync", data |-> sheet, i |-> 1, before |-> memberRoles],
                            memberRoles, guildRoles)
       IN  /\ task' = step.task
           /\ memberRoles' = ApplyOps(memberRoles, step.ops)
           /\ roleOps' = roleOps \o Tagged(step.ops, "task")
    /\ UNCHANGED <<syncVars, reportVars, deployVars, sheet, cmd>>

\* auto_sync_roles goes on after a role operation
TaskEntry ==
    /\ task.pc = "sync"
    /\ LET step == TaskPass(task, memberRoles, guildRoles)
       IN  /\ task' = step.task
           /\ memberRoles' = ApplyOps(memberRoles, step.ops)
           /\ roleOps' = roleOps \o Tagged(step.ops, "task")
    /\ UNCHANGED <<syncVars, reportVars, deployVars, sheet, cmd>>

\* the rows a worksheet is made of
RowChoices ==
    { Row("ann", TRUE, st) : st \in SeqToSet(status_roles) }
    \cup { Row("ann", FALSE, "Active"), Row("bob", TRUE, "Active"), Row("", TRUE, "Active"),
           Row("bob", TRUE, "") }

SheetChoices == UNION { [1..n -> RowChoices] : n \in 0..MaxRows }

\* a guild with or without the role Previous, any status roles on ann
RosterWorld ==
    /\ MatcherIdle
    /\ role_mappings = <<>>
    /\ mapping_file = FileOf(role_mappings)
    /\ guildRoles \in { SeqToSet(status_roles), {"Incoming", "Active"} }
    /\ dirGroups = <<>>
    /\ dirUsers = << <<>> >>
    /\ usersEnvelope = "list"
    /\ groupsEnvelope = "list"
    /\ memberOf = [u \in Users |-> {}]
    /\ CommandIdle
    /\ runsLeft = 0
    /\ report_in = NoReport
    /\ report_blocks = <<>>
    /\ failed_in = NoFailed
    /\ failure_groups = <<>>
    /\ roleOps = <<>>
    /\ cmd = IdleCmd
    /\ task = IdleTask
    /\ DeployIdle

\* one roster command
InitRoster ==
    /\ RosterWorld
    /\ sheet \in SheetChoices
    /\ memberRoles \in [SeqToSet(GuildMembers) -> SUBSET guildRoles]
    /\ memberRoles["bob"] \in {{}, {"Active"}}

NextRoster ==
    \/ CommandStart
    \/ CommandEntry
    \/ PromoteMember
    \/ PromoteFinish
    \/ SetStatus

SpecRoster == InitRoster /\ [][NextRoster]_vars

\* the daily task and one roster command, each step of one free to fall
\* between two steps of the other
InitDaily ==
    /\ RosterWorld
    /\ sheet \in SheetChoices
    /\ memberRoles \in [SeqToSet(GuildMembers) -> SUBSET guildRoles]
    /\ memberRoles["bob"] = {}
    /\ Cardinality(memberRoles["ann"]) <= 1

NextDaily ==
    \/ NextRoster
    \/ TaskStart
    \/ TaskEntry

SpecDaily == InitDaily /\ [][NextDaily]_vars

(***************************************************************************)
(* The deployment check (check_deployment.py) and the validation bot.py    *)
(* runs when it is started, over one .env file.                            *)
(***************************************************************************)
\* check_deployment.py lines 68-74
required_vars == <<"DISCORD_TOKEN", "GOOGLE_SHEETS_ID", "WORKSHEET_NAME",
                   "OUTLINE_API_URL", "OUTLINE_API_TOKEN">>

\* lines 76-85: every required variable is in the file with a value
check_env_file(env) ==
    IF \E k \in 1..Len(required_vars) : env[required_vars[k]] # "set"
    THEN "rejected" ELSE "accepted"

\* bot.py lines 13-25: os.getenv of a variable that is absent is None, of an
\* empty one ''; the bot exits when DISCORD_TOKEN or SHEET_ID is either
startup_validation(env) ==
    IF env["DISCORD_TOKEN"] # "set" THEN "exited"
    ELSE IF env["SHEET_ID"] # "set" THEN "exited"
    ELSE "started"

InitDeploy ==
    /\ MatcherIdle
    /\ role_mappings = <<>>
    /\ mapping_file = FileOf(role_mappings)
    /\ guildRoles = {}
    /\ dirGroups = <<>>
    /\ dirUsers = << <<>> >>
    /\ usersEnvelope = "list"
    /\ groupsEnvelope = "list"
    /\ memberOf = [u \in Users |-> {}]
    /\ CommandIdle
    /\ runsLeft = 0
    /\ report_in = NoReport
    /\ report_blocks = <<>>
    /\ failed_in = NoFailed
    /\ failure_groups = <<>>
    /\ sheet = <<>>
    /\ memberRoles = [m \in SeqToSet(GuildMembers) |-> {}]
    /\ roleOps = <<>>
    /\ cmd = IdleCmd
    /\ task = IdleTask
    /\ env_file \in [EnvVars -> {"absent", "empty", "set"}]
    /\ env_checked = "none"
    /\ bot_started = "none"

\* python check_deployment.py
CheckEnvFile ==
    /\ env_checked = "none"
    /\ env_checked' = check_env_file(env_file)
    /\ UNCHANGED <<syncVars, reportVars, rosterVars, env_file, bot_started>>

\* python bot.py
BotStartup ==
    /\ bot_started = "none"
    /\ bot_started' = startup_validation(env_file)
    /\ UNCHANGED <<syncVars, reportVars, rosterVars, env_file, env_checked>>

NextDeploy ==
    \/ CheckEnvFile
    \/ BotStartup

SpecDeploy == InitDeploy /\ [][NextDeploy]_vars

(***************************************************************************)
(* Helpers of the properties.                                              *)
(***************************************************************************)

MembersIn(bucket) == {bucket[i].member : i \in 1..Len(bucket)}

\* how many entries of a bucket are about member m
Occurrences(bucket, m) == Cardinality({i \in 1..Len(bucket) : bucket[i].member = m})

\* a contains b as a contiguous run of characters
Contains(a, b) ==
    \E off \in 0..(Len(a) - Len(b)) : \A k \in 1..Len(b) : a[off + k] = b[k]

\* the member the latest loop step issued an add call for sits in this bucket
LastIn(bucket) == \E i \in 1..Len(bucket) : bucket[i].member = lastAdd.member

AddedLast == pc = "members" /\ lastAdd.member # "none"

(***************************************************************************)
(* C1: a dry run of the full sync issues no mutating call: neither         *)
(* create_group nor add_user_to_group is ever called, also for mappings    *)
(* whose target group does not exist, and the directory is left as it was. *)
(***************************************************************************)
C1_DryRunIssuesNoMutatingCall ==
    (pc # "idle" /\ dry_run) => calls = <<>>

\* a dry run that announced a group creation and a would-sync member is over
C1_Witness ==
    /\ pc = "done"
    /\ dry_run
    /\ \E i \in 1..Len(sent) :
        /\ sent[i].kind = "sync"
        /\ sent[i].create = "dry"
        /\ sent[i].synced # <<>>

(***************************************************************************)
(* C2: whenever the reconciler has gone through the member loop of a       *)
(* (role, group) pair, every role-holder is in exactly one of the buckets  *)
(* synced / already-member / failed of the mapping's report entry, and the *)
(* three counts sum to the number of role-holders.                         *)
(***************************************************************************)
C2_EveryRoleHolderInOneBucket ==
    \A i \in 1..Len(results) :
        results[i].kind \in {"sync", "error"} =>
            LET r == results[i]
                holders == RoleMembers(r.role)
            IN  /\ \A k \in 1..Len(holders) :
                       Occurrences(r.synced, holders[k]) + Occurrences(r.existing, holders[k])
                         + Occurrences(r.failed, holders[k]) = 1
                /\ Len(r.synced) + Len(r.existing) + Len(r.failed) = Len(holders)

(***************************************************************************)
(* Two runs in a row.                                                      *)
(***************************************************************************)
SecondLiveRun == prevDry = "live" /\ ~dry_run
LiveAfterDry == prevDry = "dry" /\ ~dry_run

Entries(r) == SeqToSet(r.synced) \cup SeqToSet(r.existing) \cup SeqToSet(r.failed)
Matched(r) == {e \in Entries(r) : e.user # "none"}

\* the run before reconciled the role's pair to the end
PrevSynced(role) ==
    \E i \in 1..Len(prevResults) : prevResults[i].kind = "sync" /\ prevResults[i].role = role

PrevEntry(role) ==
    prevResults[CHOOSE i \in 1..Len(prevResults) :
                    prevResults[i].kind = "sync" /\ prevResults[i].role = role]

AddCallsOf(cs, role) == {i \in 1..Len(cs) : cs[i].op = "add" /\ cs[i].role = role}

\* the role whose member loop is running, and the role-holders it has handled
\* so far that the matcher pairs with a fetched user
CurrentRole == all_mappings[idx][1]

HandledMatched ==
    {k \in 1..(mi - 1) :
        find_matching_outline_user(HandleOf(RoleMembers(CurrentRole)[k]),
                                   DisplayOf(RoleMembers(CurrentRole)[k]),
                                   [i \in 1..Len(users_list) |-> users_list[i].id]).user # "none"}

Handled == SeqToSet(synced_members) \cup SeqToSet(existing_members) \cup SeqToSet(failed_members)

NamesExistingMembership(r) ==
    \E i \in 1..Len(existing_keywords) : Contains(ResponseText(r), existing_keywords[i])

(***************************************************************************)
(* C3 as stated: a live reconcile of a pair run a second time, nothing     *)
(* else having changed, issues no mutating call for the pair and puts      *)
(* every role-holder matched in the first run in already-member.           *)
(***************************************************************************)
C3_SecondRunIssuesNoCall ==
    SecondLiveRun =>
        \A j \in 1..Len(results) :
            (results[j].kind = "sync" /\ PrevSynced(results[j].role)) =>
                /\ \A i \in 1..Len(calls) : calls[i].role # results[j].role
                /\ \A e \in Matched(PrevEntry(results[j].role)) :
                       e.member \in MembersIn(results[j].existing)

(***************************************************************************)
(* C3 amended: the second live run of a pair issues an add-to-group call   *)
(* again for every matched role-holder it handles, one each: while the     *)
(* member loop runs the pair has as many add calls as matched role-holders *)
(* handled, a loop cut short by an error has issued at least the call that *)
(* failed, and a pair reconciled to the end has one call per matched       *)
(* role-holder and so repeats every add call the first run issued for it.  *)
(* A role-holder is put in already-member only when the reply to that call *)
(* names an existing membership.                                           *)
(***************************************************************************)
C3_SecondRunRepeatsAdds ==
    SecondLiveRun =>
        /\ \A j \in 1..Len(results) :
              results[j].kind = "sync" =>
                LET role == results[j].role
                    gid == outline_groups[results[j].group].id
                IN  /\ \A k \in AddCallsOf(prevCalls, role) :
                           \E i \in AddCallsOf(calls, role) : calls[i] = prevCalls[k]
                    /\ \A e \in Matched(results[j]) :
                           \E i \in AddCallsOf(calls, role) : calls[i] = AddCall(role, e.member, e.user, gid)
                    /\ Cardinality(AddCallsOf(calls, role)) = Cardinality(Matched(results[j]))
        /\ \A j \in 1..Len(results) :
              results[j].kind = "error" => AddCallsOf(calls, results[j].role) # {}
        /\ pc = "members" =>
              Cardinality(AddCallsOf(calls, CurrentRole)) = Cardinality(HandledMatched)
        /\ (AddedLast /\ LastIn(existing_members)) => NamesExistingMembership(lastAdd.resp)

\* a second live run is over that repeated an add call of the first run and
\* found the role-holder already a member
C3_Witness ==
    /\ SecondLiveRun
    /\ pc = "done"
    /\ \E j \in 1..Len(results) :
        /\ results[j].kind = "sync"
        /\ results[j].existing # <<>>
        /\ PrevSynced(results[j].role)
        /\ AddCallsOf(prevCalls, results[j].role) # {}

Pairs(es) == {<<e.member, e.user>> : e \in es}

C4_EveryMappingReported ==
    (pc = "done" /\ all_mappings # <<>>) =>
        /\ Len(sent) = Len(all_mappings)
        /\ \A i \in 1..Len(sent) : sent[i].role = all_mappings[i][1]

(***************************************************************************)
(* C6: the matcher returns the first candidate, in list order, that        *)
(* satisfies the lowest-numbered strategy any candidate satisfies; when    *)
(* the display name equals a candidate's name ignoring case, strategy 1    *)
(* decides, even if an earlier candidate matches by a later strategy.      *)
(***************************************************************************)
Hits(k, u) == StrategyHit(k, HandleOf(mMember), DisplayOf(mMember), u)

C6_FirstCandidateOfLowestStrategy ==
    mResult # NotRun =>
        LET ks == {k \in 1..6 : \E i \in 1..Len(mUsers) : Hits(k, mUsers[i])}
        IN  /\ ks = {} => mResult = NoMatch
            /\ ks # {} =>
                 LET k == CHOOSE x \in ks : \A y \in ks : x <= y
                     is == {i \in 1..Len(mUsers) : Hits(k, mUsers[i])}
                     first == CHOOSE x \in is : \A y \in is : x <= y
                 IN  mResult = [user |-> mUsers[first], strategy |-> k]
            /\ (\E i \in 1..Len(mUsers) :
                    /\ UserName(mUsers[i]) # <<>>
                    /\ Lower(UserName(mUsers[i])) = Lower(DisplayOf(mMember)))
                 => /\ mResult.strategy = 1
                    /\ Lower(UserName(mResult.user)) = Lower(DisplayOf(mMember))

\* strategy 1 picked a candidate that stands behind one a later strategy accepts
C6_Witness ==
    /\ mResult # NotRun
    /\ mResult.strategy = 1
    /\ \E i, j \in 1..Len(mUsers) :
        /\ i < j
        /\ mUsers[j] = mResult.user
        /\ \E k \in 2..6 : Hits(k, mUsers[i])

(***************************************************************************)
(* C7 as stated: strategy 5 matches a candidate exactly when a token of    *)
(* the lowercased handle and a token of the lowercased candidate name,     *)
(* both longer than 2 characters, contain one another.                     *)
(***************************************************************************)
NoEarlierStrategy ==
    \A k \in 1..4 : \A i \in 1..Len(mUsers) : ~Hits(k, mUsers[i])

TokenRule(u) ==
    /\ UserName(u) # <<>>
    /\ \E a \in SeqToSet(Split(Lower(HandleOf(mMember)))) :
       \E b \in SeqToSet(Split(Lower(UserName(u)))) :
            /\ Len(a) > 2
            /\ Len(b) > 2
            /\ (Contains(a, b) \/ Contains(b, a))

C7_Strategy5UsesTokens ==
    (mResult # NotRun /\ NoEarlierStrategy) =>
        /\ (\E i \in 1..Len(mUsers) : TokenRule(mUsers[i])) <=> mResult.strategy = 5
        /\ mResult.strategy = 5 => TokenRule(mResult.user)

(***************************************************************************)
(* C7 amended: strategy 5 matches a candidate exactly when the whole       *)
(* lowercased handle and the whole lowercased candidate name, both longer  *)
(* than 2 characters, contain one another; nothing is split into tokens.   *)
(***************************************************************************)
WholeRule(u) ==
    LET h == Lower(HandleOf(mMember))
        n == Lower(UserName(u))
    IN  /\ Len(h) > 2
        /\ Len(n) > 2
        /\ (Contains(h, n) \/ Contains(n, h))

C7_Strategy5UsesWholeStrings ==
    (mResult # NotRun /\ NoEarlierStrategy) =>
        /\ (\E i \in 1..Len(mUsers) : WholeRule(mUsers[i])) <=> mResult.strategy = 5
        /\ mResult.strategy = 5 =>
              /\ WholeRule(mResult.user)
              /\ \A i \in 1..Len(mUsers) :
                    WholeRule(mUsers[i]) =>
                        \E j \in 1..i : mUsers[j] = mResult.user

\* strategy 5 decided a match
C7_Witness ==
    /\ mResult # NotRun
    /\ mResult.strategy = 5

(***************************************************************************)
(* C8: the full sync resolves the target group ignoring case: when the     *)
(* fetched groups hold one whose name equals the mapped name up to letter  *)
(* case, no group is created (live) and no creation is announced (dry).    *)
(***************************************************************************)
KnownIgnoringCase(name) ==
    \E i \in 1..Len(groups_list) : Lower(groups_list[i].name) = Lower(name)

C8_GroupLookupIgnoresCase ==
    /\ \A i \in 1..Len(calls) :
          calls[i].op = "create" => ~KnownIgnoringCase(calls[i].name)
    /\ \A i \in 1..Len(results) :
          results[i].create # "none" => ~KnownIgnoringCase(results[i].group)

(***************************************************************************)
(* C9: in a live reconcile a non-empty add-to-group reply that carries     *)
(* success = false or an error field, or whose text contains 'already',    *)
(* 'duplicate' or 'conflict', puts the role-holder in already-member,      *)
(* never in synced or failed.                                              *)
(***************************************************************************)
C9_ErrorReplyIsAlreadyMember ==
    ( /\ AddedLast
      /\ lastAdd.resp.kind = "dict"
      /\ \/ lastAdd.resp.success = "false"
         \/ lastAdd.resp.error # "absent"
         \/ Contains(ResponseText(lastAdd.resp), kwAlready)
         \/ Contains(ResponseText(lastAdd.resp), kwDuplicate)
         \/ Contains(ResponseText(lastAdd.resp), kwConflict) )
    => /\ LastIn(existing_members)
       /\ ~LastIn(synced_members)
       /\ ~LastIn(failed_members)

(***************************************************************************)
(* C10: in a live reconcile a matched role-holder whose directory user is  *)
(* not yet in the group and whose add-to-group call gets a non-empty       *)
(* success reply lands in synced, with one add call issued for them,       *)
(* whatever data the reply carries.                                        *)
(***************************************************************************)
C10_SuccessReplyIsSynced ==
    ( /\ AddedLast
      /\ ~lastAdd.wasMember
      /\ lastAdd.resp.kind = "dict"
      /\ lastAdd.resp.success # "false"
      /\ lastAdd.resp.error = "absent"
      /\ lastAdd.resp.message = <<>> )
    => /\ LastIn(synced_members)
       /\ Cardinality({i \in 1..Len(calls) :
              calls[i] = AddCall(all_mappings[idx][1], lastAdd.member, lastAdd.user, lastAdd.group)}) = 1

(***************************************************************************)
(* C11: an error raised while one role-holder is handled is folded into    *)
(* that role-holder's outcome: whenever a member loop ends, the mapping's  *)
(* report entry still holds every classification made so far and every     *)
(* role-holder of the role has been classified in it.                      *)
(***************************************************************************)
C11_MemberErrorIsFolded ==
    [][ (pc = "members" /\ pc' # "members") =>
            /\ Len(results') = Len(results) + 1
            /\ LET r == results'[Len(results')]
               IN  /\ SeqToSet(synced_members) \subseteq SeqToSet(r.synced)
                   /\ SeqToSet(existing_members) \subseteq SeqToSet(r.existing)
                   /\ SeqToSet(failed_members) \subseteq SeqToSet(r.failed)
                   /\ MembersIn(r.synced) \cup MembersIn(r.existing) \cup MembersIn(r.failed)
                        = SeqToSet(RoleMembers(r.role)) ]_vars

(***************************************************************************)
(* C12: when add-to-group returns nothing for a matched role-holder, the   *)
(* role-holder is put in the failed bucket, in no other, under the         *)
(* category 'API error'; the call is not issued again for them and the     *)
(* loop goes on to the next role-holder, so that the finished entry still  *)
(* classifies every role-holder.                                           *)
(***************************************************************************)
AddCallsFor(role, member) ==
    {i \in 1..Len(calls) : calls[i].op = "add" /\ calls[i].role = role /\ calls[i].member = member}

ApiFailed(bucket) == {e \in SeqToSet(bucket) : e.why = "api_failed"}

C12_NoReplyIsApiError ==
    /\ (AddedLast /\ lastAdd.resp.kind = "none") =>
          /\ \E e \in ApiFailed(failed_members) :
                /\ e.member = lastAdd.member
                /\ simplified_reason(FailedInfo(e)) = tApiError
          /\ ~LastIn(synced_members)
          /\ ~LastIn(existing_members)
          /\ Occurrences(failed_members, lastAdd.member) = 1
          /\ RoleMembers(CurrentRole)[mi - 1] = lastAdd.member
    /\ \A j \in 1..Len(results) :
          results[j].kind = "sync" =>
              /\ \A e \in ApiFailed(results[j].failed) :
                    /\ Cardinality(AddCallsFor(results[j].role, e.member)) = 1
                    /\ simplified_reason(FailedInfo(e)) = tApiError
              /\ MembersIn(results[j].synced) \cup MembersIn(results[j].existing)
                    \cup MembersIn(results[j].failed) = SeqToSet(RoleMembers(results[j].role))

\* an add call got no reply for the first matched role-holder and the loop
\* went on to classify the others
C12_Witness ==
    /\ ~dry_run
    /\ \E j \in 1..Len(results) :
          /\ results[j].kind = "sync"
          /\ \E e \in ApiFailed(results[j].failed) :
                /\ e.member = RoleMembers(results[j].role)[1]
                /\ \E i \in 1..Len(calls) :
                      /\ calls[i].op = "add"
                      /\ calls[i].role = results[j].role
                      /\ calls[i].member # e.member

(***************************************************************************)
(* C13: in a live reconcile add-to-group is called exactly once for each   *)
(* role-holder the matcher matched and never for an unmatched one; a call  *)
(* that failed is not repeated within the run.                             *)
(***************************************************************************)
AddCallsTo(role, member, user) == {i \in AddCallsFor(role, member) : calls[i].user = user}

C13_OneAddCallPerMatchedHolder ==
    ~dry_run =>
        /\ pc = "members" =>
              \A k \in 1..Len(RoleMembers(CurrentRole)) :
                  Cardinality(AddCallsFor(CurrentRole, RoleMembers(CurrentRole)[k]))
                      = IF k \in HandledMatched THEN 1 ELSE 0
        /\ \A j \in 1..Len(results) :
              results[j].kind = "sync" =>
                  \A e \in Entries(results[j]) :
                      /\ Cardinality(AddCallsFor(results[j].role, e.member))
                            = IF e.user = "none" THEN 0 ELSE 1
                      /\ e.user # "none" => AddCallsTo(results[j].role, e.member, e.user) # {}
        /\ \A i, j \in 1..Len(calls) :
              (calls[i].op = "add" /\ calls[j].op = "add" /\ i # j) =>
                  (calls[i].role # calls[j].role \/ calls[i].member # calls[j].member)

\* a live reconcile is over in which one matched role-holder's call failed,
\* another's succeeded and a third role-holder had no match
C13_Witness ==
    /\ ~dry_run
    /\ pc = "done"
    /\ \E j \in 1..Len(results) :
          /\ results[j].kind = "sync"
          /\ results[j].synced # <<>>
          /\ ApiFailed(results[j].failed) # {}
          /\ \E e \in SeqToSet(results[j].failed) : e.why = "no_match"

(***************************************************************************)
(* C14: in a live full sync, when creating a missing target group fails    *)
(* (no reply, or a reply without data), the mapping is reported as failed, *)
(* no add-to-group call is issued for its role-holders, and the sync goes  *)
(* on with the following mappings, whose entries follow in the report.     *)
(***************************************************************************)
CreateFailures == {i \in 1..Len(calls) : calls[i].op = "create" /\ calls[i].reply \in {"none", "nodata"}}

C14_FailedCreationFailsOneMapping ==
    /\ \A i \in CreateFailures :
          /\ ~dry_run
          /\ \E j \in 1..Len(results) :
                /\ results[j].kind = "create_failed"
                /\ results[j].role = calls[i].role
                /\ all_mappings[j][1] = calls[i].role
                /\ idx > j
          /\ AddCallsOf(calls, calls[i].role) = {}
    /\ \A j \in 1..Len(results) :
          results[j].kind = "create_failed" =>
              \E i \in CreateFailures : calls[i].role = results[j].role
    /\ (pc = "done" /\ sent # <<>> /\ sent[1].kind \notin {"abort", "groups_failed", "groups_invalid"}) =>
          /\ sent = results
          /\ Len(results) = Len(all_mappings)

\* the creation of the first mapping's group failed and the second mapping
\* was reconciled
C14_Witness ==
    /\ pc = "done"
    /\ Len(sent) = 2
    /\ sent[1].kind = "create_failed"
    /\ sent[2].kind = "sync"
    /\ sent[2].create = "created"

(***************************************************************************)
(* C15: for a mapping whose role the guild does not have, the full sync    *)
(* records exactly one 'role not found' entry, creates no group and issues *)
(* no add-to-group call for that mapping, and goes on to the next mapping. *)
(***************************************************************************)
C15_MissingRoleIsOnlyReported ==
    /\ \A j \in 1..Len(results) :
          /\ results[j].role = all_mappings[j][1]
          /\ results[j].kind = "role_not_found" <=> results[j].role \notin guildRoles
          /\ idx > j
    /\ \A k \in 1..Len(all_mappings) :
          all_mappings[k][1] \notin guildRoles =>
              /\ \A i \in 1..Len(calls) : calls[i].role # all_mappings[k][1]
              /\ Cardinality({j \in 1..Len(results) : results[j].role = all_mappings[k][1]})
                    = IF idx > k THEN 1 ELSE 0
              /\ ~(pc = "members" /\ idx = k)

\* the first mapping's role was missing and the second mapping was reconciled
C15_Witness ==
    /\ pc = "done"
    /\ Len(sent) = 2
    /\ sent[1].kind = "role_not_found"
    /\ sent[2].kind = "sync"

(***************************************************************************)
(* C16: the candidate list the reconciler matches against holds every user *)
(* of the directory, also when the directory serves its users in several   *)
(* pages.                                                                  *)
(***************************************************************************)
AllPages(pages) == UNION {SeqToSet(pages[p]) : p \in 1..Len(pages)}

C16_AllPagesAreCandidates ==
    pc = "members" =>
        {users_list[i].id : i \in 1..Len(users_list)} = AllPages(dirUsers)

(***************************************************************************)
(* C17: a successful users or groups reply is read the same whether its    *)
(* 'data' is the flat list or an object holding the list under its key: the *)
(* full sync goes on with the directory's groups and the users the reply   *)
(* carries, and the sync-outline command does not end in an error and has  *)
(* fetched the users the reply carries.                                    *)
(***************************************************************************)
Carried(envelope) == envelope \in {"list", "dict"}

C17_BothEnvelopesAreRead ==
    /\ pc \in {"mapping", "members"} =>
            groups_list = SubSeq(dirGroups, 1, Len(groups_list))
    /\ pc = "members" =>
            [i \in 1..Len(users_list) |-> users_list[i].id] = get_users(dirUsers)
    /\ (pc = "slash_done" /\ Carried(users_reply) /\ Carried(groups_reply)) =>
            /\ sent[1].kind # "slash_error"
            /\ outline_users = get_users(dirUsers)

(***************************************************************************)
(* C18: the matcher returns no match exactly when no candidate satisfies   *)
(* any of the six strategies; it returns no match for an empty candidate   *)
(* list and for candidates that have neither a name nor an email.          *)
(***************************************************************************)
Nameless(u) == UserName(u) = <<>> /\ UserEmail(u) = <<>>

C18_NullExactlyWhenNoStrategyHits ==
    mResult # NotRun =>
        /\ mResult = NoMatch <=>
                \A i \in 1..Len(mUsers) : \A k \in 1..6 : ~Hits(k, mUsers[i])
        /\ mUsers = <<>> => mResult = NoMatch
        /\ (\A i \in 1..Len(mUsers) : Nameless(mUsers[i])) => mResult = NoMatch

\* no match among candidates of which one has neither name nor email and
\* another has a name
C18_Witness ==
    /\ mResult = NoMatch
    /\ \E i, j \in 1..Len(mUsers) :
        /\ Nameless(mUsers[i])
        /\ UserName(mUsers[j]) # <<>>

(***************************************************************************)
(* C19: strategy 2 matches a candidate exactly when a whitespace token of  *)
(* the lowercased display name and a whitespace token of the lowercased    *)
(* candidate name, each at least 3 characters long, contain one another;   *)
(* a token of 2 characters or fewer never produces a match.                *)
(***************************************************************************)
LongTokens(s) == {t \in SeqToSet(Split(Lower(s))) : Len(t) >= 3}

DisplayTokenRule(u) ==
    \E a \in LongTokens(DisplayOf(mMember)) : \E b \in LongTokens(UserName(u)) :
        Contains(a, b) \/ Contains(b, a)

C19_Strategy2IsTheTokenRule ==
    (mResult # NotRun /\ \A i \in 1..Len(mUsers) : ~Hits(1, mUsers[i])) =>
        /\ (\E i \in 1..Len(mUsers) : DisplayTokenRule(mUsers[i])) <=> mResult.strategy = 2
        /\ mResult.strategy = 2 =>
              /\ DisplayTokenRule(mResult.user)
              /\ \A i \in 1..Len(mUsers) :
                    DisplayTokenRule(mUsers[i]) => \E j \in 1..i : mUsers[j] = mResult.user
        /\ LongTokens(DisplayOf(mMember)) = {} => mResult.strategy # 2

\* strategy 2 decided for a candidate that stands behind one whose name
\* shares no long token with the display name
C19_Witness ==
    /\ mResult # NotRun
    /\ mResult.strategy = 2
    /\ \E i, j \in 1..Len(mUsers) :
        /\ i < j
        /\ mUsers[j] = mResult.user
        /\ UserName(mUsers[i]) # <<>>
        /\ ~DisplayTokenRule(mUsers[i])

(***************************************************************************)
(* C20: in a dry run a matched role-holder is put in already-member        *)
(* exactly when the memberships of the matched directory user hold the     *)
(* target group's id, and in would-sync otherwise; no add call is made.    *)
(***************************************************************************)
C20_DryRunReadsMemberships ==
    (pc = "members" /\ dry_run) =>
        /\ calls = <<>>
        /\ \A k \in HandledMatched :
              LET member == RoleMembers(CurrentRole)[k]
                  ids == [i \in 1..Len(users_list) |-> users_list[i].id]
                  user == find_matching_outline_user(HandleOf(member), DisplayOf(member), ids).user
              IN  /\ member \in MembersIn(existing_members) <=> outline_group_id \in memberOf[user]
                  /\ member \in MembersIn(synced_members) <=> outline_group_id \notin memberOf[user]
                  /\ member \notin MembersIn(failed_members)

\* a dry run has put one matched role-holder in already-member and another
\* in would-sync
C20_Witness ==
    /\ pc = "members"
    /\ dry_run
    /\ existing_members # <<>>
    /\ synced_members # <<>>

(***************************************************************************)
(* C21: the flattened configuration holds one entry per distinct role      *)
(* name; a role two categories define is mapped to the group of the        *)
(* category iterated last, and a run reconciles it once: it gets at most   *)
(* one report entry, and exactly one in a run that sends its report.       *)
(***************************************************************************)
Defines(category, role) ==
    \E k \in 1..Len(category.mappings) : category.mappings[k][1] = role

GroupIn(category, role) ==
    category.mappings[CHOOSE k \in 1..Len(category.mappings) : category.mappings[k][1] = role][2]

ConfiguredRoles ==
    {r \in {"Active", "Alumni"} : \E c \in 1..Len(role_mappings) : Defines(role_mappings[c], r)}

LastCategory(role) ==
    CHOOSE c \in 1..Len(role_mappings) :
        /\ Defines(role_mappings[c], role)
        /\ \A d \in (c + 1)..Len(role_mappings) : ~Defines(role_mappings[d], role)

ReportSent == pc = "done" /\ sent # <<>> /\ sent[1].kind \in {"sync", "role_not_found",
                  "create_failed", "create_invalid", "users_failed", "users_invalid", "error"}

C21_OneEntryPerRole ==
    /\ pc \in {"mapping", "members"} =>
          /\ {all_mappings[i][1] : i \in 1..Len(all_mappings)} = ConfiguredRoles
          /\ Len(all_mappings) = Cardinality(ConfiguredRoles)
          /\ \A i \in 1..Len(all_mappings) :
                all_mappings[i][2] = GroupIn(role_mappings[LastCategory(all_mappings[i][1])],
                                             all_mappings[i][1])
    /\ \A i, j \in 1..Len(results) : results[i].role = results[j].role => i = j
    /\ \A i \in 1..Len(calls) : calls[i].role \in ConfiguredRoles
    /\ ReportSent =>
          \A r \in ConfiguredRoles :
              Cardinality({j \in 1..Len(sent) : sent[j].role = r}) = 1

\* a run has reported the role two categories define, once, with the group
\* of the later category
C21_Witness ==
    /\ ReportSent
    /\ \E c, d \in 1..Len(role_mappings) :
          /\ c < d
          /\ Defines(role_mappings[c], "Active")
          /\ Defines(role_mappings[d], "Active")
          /\ GroupIn(role_mappings[c], "Active") # GroupIn(role_mappings[d], "Active")
    /\ \E j \in 1..Len(sent) :
          /\ sent[j].role = "Active"
          /\ sent[j].kind = "sync"
          /\ sent[j].group = sOld

(***************************************************************************)
(* C22: loading the configuration never raises: for a file that is absent, *)
(* unreadable or no valid JSON load_role_mappings returns the empty        *)
(* mapping set, and a full sync on it issues no mutating call and, once    *)
(* it has fetched the groups, reports that there are no mappings.          *)
(***************************************************************************)
C22_LoadNeverRaises ==
    /\ pc # "load_raised"
    /\ (pc # "unloaded" /\ mapping_file.kind # "valid") =>
          /\ role_mappings = <<>>
          /\ calls = <<>>
          /\ (pc = "done" /\ sent[1].kind \notin {"groups_failed", "groups_invalid"}) =>
                sent = << Note("no_mappings") >>

(***************************************************************************)
(* C23: every message the full sync sends for a mapping is at most         *)
(* MessageLimit characters long; a longer result is split into several.    *)
(***************************************************************************)
C23_BlocksWithinLimit ==
    \A i \in 1..Len(report_blocks) : report_blocks[i] <= MessageLimit

(***************************************************************************)
(* C26: the mappings of one full sync share no mutable state: the step     *)
(* that takes up a mapping, creating its group where needed, leaves the    *)
(* group table the other mappings read as it was.                          *)
(***************************************************************************)
C26_MappingsShareNoState ==
    [][ (pc = "mapping" /\ idx <= Len(all_mappings)) => outline_groups' = outline_groups ]_vars

(***************************************************************************)
(* C27: the add-to-group request the bot sends is the one the API test     *)
(* script validates: endpoint 'groups.add_user', the group id under 'id',  *)
(* the user id under 'userId'; likewise 'groups.remove_user' for removal.  *)
(***************************************************************************)
C27_AddRequestIsTheTestedOne ==
    \A i \in 1..Len(calls) :
        calls[i].op = "add" =>
            /\ calls[i].request = test_groups_add_user(calls[i].gid, calls[i].user)
            /\ remove_user_from_group(calls[i].user, calls[i].gid)
                    = test_groups_remove_user(calls[i].gid, calls[i].user)

(***************************************************************************)
(* C24: no two sync passes are in progress at a time: while the daily      *)
(* task's pass is suspended at a role operation, neither sync_roles nor    *)
(* the pre-sync of promote is inside its pass, and the other way round.    *)
(***************************************************************************)
C24_OneSyncPassAtATime ==
    ~(task.pc = "sync" /\ cmd.pc = "sync")

\* every role operation of one whole pass of the sync_roles command over the
\* rows data, started in a guild whose members hold roles
RECURSIVE SyncCommandOps(_, _, _)
SyncCommandOps(c, roles, exist) ==
    LET step == CommandPass(c, roles, exist)
    IN  IF step.ops = <<>> THEN <<>>
        ELSE step.ops \o SyncCommandOps(step.cmd, ApplyOps(roles, step.ops), exist)

(***************************************************************************)
(* C25: the daily task and the sync_roles command run the same            *)
(* reconciliation.  When the task has finished a pass on its own (no      *)
(* command has run), the role removals and additions it issued are, in    *)
(* order, the ones the code of the command issues for the same rows in    *)
(* the same guild.                                                         *)
(***************************************************************************)
C25_TaskIssuesWhatTheCommandIssues ==
    (task.pc = "done" /\ cmd.pc = "idle") =>
        roleOps = Tagged(SyncCommandOps([IdleCmd EXCEPT !.name = "sync_roles", !.pc = "sync",
                                                        !.data = task.data],
                                        task.before, guildRoles),
                         "task")

\* the task alone moved a member from one status role to another and gave a
\* second member a role
C25_Witness ==
    /\ task.pc = "done"
    /\ cmd.pc = "idle"
    /\ Len(roleOps) >= 3
    /\ \E k \in 1..Len(roleOps) : roleOps[k].op = "remove"
    /\ \E k \in 1..Len(roleOps) : roleOps[k].member = "bob"

\* the command promote has ended, by its answer or by an exception
PromoteEnded == cmd.name = "promote" /\ cmd.pc \in {"done", "raised"}

(***************************************************************************)
(* C28: one promote moves each member at most one step along              *)
(* Incoming -> Active -> Previous.  Comparing the roles a member held     *)
(* when the command started with the ones held when it has ended: only    *)
(* Incoming has become only Active, only Active has become only Previous, *)
(* a member who held Previous holds what they held, and nobody who held   *)
(* Incoming without Active holds Previous.                                *)
(***************************************************************************)
C28_PromoteMovesOneStep ==
    PromoteEnded =>
        \A m \in SeqToSet(GuildMembers) :
            /\ cmd.before[m] = {"Incoming"} => memberRoles[m] = {"Active"}
            /\ cmd.before[m] = {"Active"} => memberRoles[m] = {"Previous"}
            /\ "Previous" \in cmd.before[m] => memberRoles[m] = cmd.before[m]
            /\ ("Incoming" \in cmd.before[m] /\ "Active" \notin cmd.before[m])
                   => "Previous" \notin memberRoles[m]

(***************************************************************************)
(* C29: setstatus updates the role and the roster together.  When the     *)
(* named role exists and setstatus has finished, the member holds the     *)
(* named role and no other of Incoming/Active/Previous, and the roster    *)
(* has a row for the member whose Status is the given status.             *)
(***************************************************************************)
C29_SetStatusUpdatesBoth ==
    (cmd.name = "setstatus" /\ cmd.pc = "done" /\ cmd.status \in guildRoles) =>
        /\ memberRoles[cmd.member] \cap SeqToSet(status_roles) = {cmd.status}
        /\ \E k \in 1..Len(sheet) :
              SameName(sheet[k].username, cmd.member) /\ sheet[k].status = cmd.status

(***************************************************************************)
(* C30: after a completed sync_roles, every member whom a roster row      *)
(* names with a status whose role exists holds exactly one status role,   *)
(* the one of the row, whatever the member held before.  Members whose    *)
(* rows disagree on the status are left aside.                            *)
(***************************************************************************)
C30_SyncLeavesOneStatusRole ==
    (cmd.name = "sync_roles" /\ cmd.pc = "done") =>
        \A k \in 1..Len(cmd.data) :
            LET entry == cmd.data[k]
                member == MemberNamed(entry.username)
            IN  ( /\ entry.username.name # ""
                  /\ member # "none"
                  /\ entry.status \in guildRoles
                  /\ \A j \in 1..Len(cmd.data) :
                        MemberNamed(cmd.data[j].username) = member
                            => cmd.data[j].status = entry.status )
                => memberRoles[member] \cap SeqToSet(status_roles) = {entry.status}

\* the mappings of the run that name the group, in the order of the loop
MappingsTo(name) == {i \in 1..Len(all_mappings) : all_mappings[i][2] = name}

\* the call is a create_group answered with the record of the new group
Created(c) == c.op = "create" /\ c.reply = "record"

\* the id the directory gave the group of that name
CreatedId(name) ==
    dirGroups[CHOOSE g \in 1..Len(dirGroups) : dirGroups[g].name = name].id

Bucketed == synced_members \o existing_members \o failed_members

(***************************************************************************)
(* C32: within one reconcile no directory user is the match of two        *)
(* role-holders.  No two add-to-group calls of one mapping name the same  *)
(* user, and no directory user stands in the mapping's synced and         *)
(* already-member buckets for two role-holders.                           *)
(***************************************************************************)
C32_NoUserMatchedTwice ==
    /\ \A i, j \in 1..Len(calls) :
          ( /\ calls[i].op = "add" /\ calls[j].op = "add"
            /\ calls[i].role = calls[j].role
            /\ calls[i].user = calls[j].user )
              => calls[i].member = calls[j].member
    /\ \A i, j \in 1..Len(Bucketed) :
          (Bucketed[i].user # "none" /\ Bucketed[i].user = Bucketed[j].user)
              => Bucketed[i].member = Bucketed[j].member

\* a sync_roles has completed; nothing has touched the roster or the guild
\* since
SyncCompleted == cmd.name = "sync_roles" /\ cmd.pc = "done" /\ sheet = cmd.data

\* the role operations of a sync_roles run now
SecondSync ==
    SyncCommandOps([IdleCmd EXCEPT !.name = "sync_roles", !.pc = "sync", !.data = sheet],
                   memberRoles, guildRoles)

\* no member is named by two rows whose statuses differ
OneStatusPerMember(rows) ==
    \A j, k \in 1..Len(rows) :
        (MemberNamed(rows[j].username) # "none"
           /\ MemberNamed(rows[j].username) = MemberNamed(rows[k].username))
            => rows[j].status = rows[k].status

(***************************************************************************)
(* C33: the roster-to-role sync is idempotent.  For any roster, a         *)
(* sync_roles run right after a completed one, roster and guild           *)
(* unchanged, issues no role removal and no role addition.                *)
(***************************************************************************)
C33_SyncIsIdempotent ==
    SyncCompleted => SecondSync = <<>>

(***************************************************************************)
(* C33, amended: the same for any roster in which no member is named by   *)
(* two rows whose statuses differ.                                        *)
(***************************************************************************)
C33_SyncIsIdempotentOnConsistentRoster ==
    (SyncCompleted /\ OneStatusPerMember(sheet)) => SecondSync = <<>>

\* a first run that moved a member from one status role to another, over a
\* roster of two rows
C33_Witness ==
    /\ SyncCompleted
    /\ OneStatusPerMember(sheet)
    /\ Len(sheet) = 2
    /\ \E k \in 1..Len(roleOps) : roleOps[k].op = "remove"
    /\ \E k \in 1..Len(roleOps) : roleOps[k].op = "add"

\* the members promote has moved
Promoted == {cmd.updates[k][1] : k \in 1..Len(cmd.updates)}

(***************************************************************************)
(* C34: after promote has completed and reported the roster update as     *)
(* successful, the roster agrees with the guild for the promoted members: *)
(* a sync_roles run right afterwards issues no role operation on a        *)
(* promoted member.                                                       *)
(***************************************************************************)
C34_RosterFollowsPromote ==
    (cmd.name = "promote" /\ cmd.pc = "done" /\ cmd.sheet_success) =>
        \A k \in 1..Len(SecondSync) : SecondSync[k].member \notin Promoted

(***************************************************************************)
(* C35: when promote stops partway because a role change fails, no member *)
(* is left half-promoted.  Every member who held a status role holds one, *)
(* and every member promote has already moved, and whom the roster names, *)
(* has a roster row with the new status.                                  *)
(***************************************************************************)
C35_NoHalfPromotion ==
    (cmd.name = "promote" /\ cmd.pc = "raised") =>
        /\ \A m \in SeqToSet(GuildMembers) :
              cmd.before[m] # {} => memberRoles[m] \cap SeqToSet(status_roles) # {}
        /\ \A k \in 1..Len(cmd.updates) :
              (\E j \in 1..Len(sheet) : SameName(sheet[j].username, cmd.updates[k][1]))
                  => \E j \in 1..Len(sheet) :
                        /\ SameName(sheet[j].username, cmd.updates[k][1])
                        /\ sheet[j].status = cmd.updates[k][2]

\* sync-outline has answered with that line
SlashAnswered(kind) == pc = "slash_done" /\ sent[1].kind = kind

\* the groups sync-outline has fetched
FetchedGroups == IF SlashParse(groups_reply) = "ok" THEN dirGroups ELSE <<>>

\* the role-holders whose lowercased handle is the lowercased name of a
\* fetched user
HandleMatched ==
    {m \in SeqToSet(RoleMembers(role_name)) :
        \E i \in 1..Len(outline_users) :
            /\ UserName(outline_users[i]) # <<>>
            /\ Lower(UserName(outline_users[i])) = Lower(HandleOf(m))}

(***************************************************************************)
(* C36: sync-outline with a role and a group never creates a group.  It   *)
(* answers that the role or the group is missing, with no add-to-group    *)
(* call, exactly when the guild has no such role or no fetched group has  *)
(* the name ignoring case.  Otherwise it issues one add-to-group call for *)
(* each role-holder whose lowercased handle equals a fetched user's       *)
(* lowercased name, and for nobody else, and its synced count plus its    *)
(* error count is the number of role-holders.                             *)
(***************************************************************************)
C36_SingleSyncAddsExactlyTheMatched ==
    /\ pc \in {"slash_members", "slash_done"} =>
            \A i \in 1..Len(calls) : calls[i].op = "add"
    /\ (SlashAnswered("slash_role_not_found") \/ SlashAnswered("slash_group_not_found")) =>
            calls = <<>>
    /\ (pc = "slash_done" /\ sent[1].kind \notin {"slash_fetch_failed", "slash_error"}) =>
            /\ sent[1].kind = "slash_role_not_found" <=> role_name \notin guildRoles
            /\ sent[1].kind = "slash_group_not_found" <=>
                   /\ role_name \in guildRoles
                   /\ \A g \in 1..Len(FetchedGroups) :
                         Lower(FetchedGroups[g].name) # Lower(group_name)
    /\ SlashAnswered("slash_synced") =>
            /\ {calls[i].member : i \in 1..Len(calls)} = HandleMatched
            /\ Len(calls) = Cardinality(HandleMatched)
            /\ \A i \in 1..Len(calls) :
                  /\ calls[i].gid = group.id
                  /\ Lower(UserName(calls[i].user)) = Lower(HandleOf(calls[i].member))
            /\ sync_count + error_count = Len(RoleMembers(role_name))

\* a run over a group whose name differs in case, with a call issued and a
\* role-holder without a match
C36_Witness ==
    /\ SlashAnswered("slash_synced")
    /\ group.name # group_name
    /\ calls # <<>>
    /\ error_count > 0
    /\ sync_count > 0

(***************************************************************************)
(* C37: the failure category of the report is faithful.  A failed         *)
(* role-holder is listed under 'No match found' exactly when the matcher  *)
(* found no match, under 'API error' exactly when the add-to-group call   *)
(* returned nothing, whatever the display name and the user's name        *)
(* contain, and under exactly one category.                               *)
(***************************************************************************)
C37_CategoryIsFaithful ==
    failure_groups # <<>> =>
        /\ Len(failure_groups) = 1
        /\ failure_groups[1] = tNoMatchFound <=> failed_in.why = "no_match"
        /\ failure_groups[1] = tApiError <=> failed_in.why = "api_failed"

(***************************************************************************)
(* C38: the deployment check and the bot agree on the required            *)
(* configuration.  An environment file check_env_file accepts gets the    *)
(* bot past its startup validation, and an environment file the bot       *)
(* starts with is accepted by the check.                                  *)
(***************************************************************************)
C38_CheckAndBotAgree ==
    /\ (env_checked = "accepted" /\ bot_started # "none") => bot_started = "started"
    /\ (bot_started = "started" /\ env_checked # "none") => env_checked = "accepted"

====
